---- MODULE Spec2Model ----
(***************************************************************************)
(* Model of mcp-shell's process execution core:                            *)
(*   - limitedWriter.Write, the byte-capped sink (internal/proc/proc.go    *)
(*     and internal/shell/tools.go carry the same code);                   *)
(*   - shell.Run, the bounded synchronous executor, together with the      *)
(*     parts of os/exec (Go 1.24) and of the kernel that decide what       *)
(*     cmd.Run returns: the context watcher, Process.Wait, the output      *)
(*     copying goroutines, signal delivery, and the command's process      *)
(*     group;                                                              *)
(*   - runtime.ShScriptWriteAndRun, the variant of the executor that       *)
(*     writes a script to a temporary file and runs it;                    *)
(*   - the process registry of internal/proc/proc.go: Spawn, Stdin, Wait,  *)
(*     Kill and List over the map of tracked processes, with the reaper    *)
(*     and output copying goroutines of every tracked process and the      *)
(*     kernel's allocation of process ids;                                 *)
(*   - obs.Middleware, the admission control around every tool handler:    *)
(*     the token bucket of golang.org/x/time/rate per tool name, the       *)
(*     channel sem, the contexts with their deadlines, the handler the     *)
(*     middleware calls, and the Prometheus counters it increments.        *)
(***************************************************************************)
EXTENDS Integers, Sequences, FiniteSets, TLC

(***************************************************************************)
(* Bounds of the model                                                     *)
(***************************************************************************)
\* limitedWriter specification
MaxLimit == 3
MaxChunk == 3
MaxTotal == 5
\* executor specification: writes the command's processes perform
MaxWrites == 2
\* registry specification: Spawn calls that start a child, bytes a child
\* writes, write_stdin calls a child receives
MaxProcs == 2
MaxOut == 1
MaxIn == 1
\* admission control specification: calls of the wrapped handler, and
\* steps of time
MaxCalls == 2
MaxTicks == 1

(***************************************************************************)
(* Program constants                                                       *)
(***************************************************************************)
DefaultTimeout == 60000
DefaultMaxIO == 1048576
CmdRequiredExit == 127
BlockedExit == 126
TimeoutExit == 124
LaunchFailExit == 1
SignalledExit == -1
\* len("timed out"), len("command blocked by policy"),
\* len("[dry_run] would execute: ")
TimedOutLen == 9
BlockedMsgLen == 25
DryRunPrefixLen == 25
\* internal/proc/proc.go
DefaultMaxStdin == 1048576
UnknownPidExit == 1
WaitTimeoutExit == 124
ReaperFailExit == 1
SIGTERM == 15
SIGKILL == 9
\* internal/obs: maxConcurrency, defaultRPS (5.0, in tenths of a token per
\* second) and defaultTimeout (60 * time.Second, in ms) as declared
InitialMaxConcurrency == 4
InitialRPS == 50
InitialTimeout == 60000
\* internal/runtime: the exit codes of ShScriptWriteAndRun for a request
\* without shebang or content, and for a script that could not be written
ShInputExit == 1
ShSetupExit == 1

VARIABLES
    \* ---- limitedWriter specification ----
    lw,            \* the writer: [buf, limit, truncated]
    written,       \* history: concatenation of every p passed to Write
    lastN,         \* the n returned by the last Write
    \* ---- executor specification ----
    in,            \* ExecRequest
    allowPatterns, \* SHELL_EXEC_ALLOW, each pattern as the set of commands it matches
    denyPatterns,  \* SHELL_EXEC_DENY
    pc,            \* position of the goroutine executing Run
    timeout,       \* local timeout (ms)
    elapsed,       \* ms since context.WithTimeout
    ctxErr,        \* ctx.Err() of the deadline-bound context
    child,         \* bash -lc: "none" | "running" | "zombie" | "reaped"
    childSig,      \* SIGKILL pending on the child
    childStatus,   \* wait status: exit code, or SignalledExit
    watch,         \* os/exec context watcher: "off" | "armed" | "fired" | "done"
    watchErr,      \* error the watcher hands to Wait
    runErr,        \* what cmd.Run returned
    desc,          \* a descendant in the child's process group
    stdoutW,       \* limitedWriter of cmd.Stdout: [len, limit, truncated]
    stderrW,       \* limitedWriter of cmd.Stderr
    writes,        \* number of writes performed by the command
    signals,       \* signals sent by this process: <<target, signal>>
    spawned,       \* processes started by Run
    resp,          \* ExecResponse
    path,          \* history: the return path Run took
    auditCalls,    \* invocations of audit
    logLines,      \* lines appended to LogPath
    expiredRunning, \* history: Run's own deadline expired while the child ran
    exitedFirst,   \* history: the child ended by itself before the context was done
    \* ---- registry specification ----
    processes,     \* the map of tracked processes: pid -> process, 0 for no entry
    procs,         \* every process object Spawn made, with its child
    waiter,        \* the Wait call in progress
    pres,          \* what the call that returned in the last step returned
    \* ---- admission control specification ----
    maxConcurrency, \* capacity of sem, set by init
    defaultRPS,    \* tokens per second, in tenths, set by init
    defaultTimeout, \* timeout the middleware applies (ms), set by init
    sem,           \* number of elements in the channel sem
    rateLimiters,  \* tool name -> the *rate.Limiter stored, 0 before any Store
    mw,            \* every call of the wrapped handler, with its goroutine
    clock,         \* [now, ticks]: time in ms, and the steps of time taken
    environ,       \* tool name -> what RATE_LIMIT_<TOOL> holds, Unread
                   \* as long as no Getenv has read it
    limiters,      \* every rate.Limiter made, under the call that made it
    calls,         \* tool_calls_total, per tool
    errors,        \* tool_errors_total, per tool
    timeouts,      \* tool_timeouts_total, per tool
    durations      \* tool_duration_seconds, per tool: samples observed

wvars == <<lw, written, lastN>>
xvars == <<in, allowPatterns, denyPatterns, pc, timeout, elapsed, ctxErr,
           child, childSig, childStatus, watch, watchErr, runErr, desc,
           stdoutW, stderrW, writes, signals, spawned, resp, path,
           auditCalls, logLines, expiredRunning, exitedFirst>>
vars == <<lw, written, lastN, in, allowPatterns, denyPatterns, pc, timeout,
          elapsed, ctxErr, child, childSig, childStatus, watch, watchErr,
          runErr, desc, stdoutW, stderrW, writes, signals, spawned, resp,
          path, auditCalls, logLines, expiredRunning, exitedFirst,
          processes, procs, waiter, pres,
          maxConcurrency, defaultRPS, defaultTimeout, sem, rateLimiters, mw,
          clock, environ, limiters, calls, errors, timeouts, durations>>
pvars == <<processes, procs, waiter, pres>>
metrics == <<calls, errors, timeouts, durations>>
mvars == <<maxConcurrency, defaultRPS, defaultTimeout, sem, rateLimiters, mw,
           clock, environ, limiters, calls, errors, timeouts, durations>>

hist == <<expiredRunning, exitedFirst>>

(***************************************************************************)
(* limitedWriter                                                           *)
(***************************************************************************)
Byte == {0, 1}

\* Mutant: the remaining room is computed one byte too large.
LimitedWriteRoomy(w, p) ==
    IF w.limit <= 0
    THEN [w EXCEPT !.buf = @ \o p]
    ELSE LET remain == w.limit - Len(w.buf) + 1
         IN  IF remain <= 0
             THEN [w EXCEPT !.truncated = TRUE]
             ELSE IF Len(p) <= remain
                  THEN [w EXCEPT !.buf = @ \o p]
                  ELSE [w EXCEPT !.buf = @ \o SubSeq(p, 1, remain),
                                 !.truncated = TRUE]

\* Mutant: a write that exactly fills the buffer is flagged as truncating.
LimitedWriteEager(w, p) ==
    IF w.limit <= 0
    THEN [w EXCEPT !.buf = @ \o p]
    ELSE LET remain == w.limit - Len(w.buf)
         IN  IF remain <= 0
             THEN [w EXCEPT !.truncated = TRUE]
             ELSE IF Len(p) < remain
                  THEN [w EXCEPT !.buf = @ \o p]
                  ELSE [w EXCEPT !.buf = @ \o SubSeq(p, 1, remain),
                                 !.truncated = TRUE]

\* func (w *limitedWriter) Write(p []byte) (int, error): the writer after
\* the call.
LimitedWrite(w, p) ==
    IF w.limit <= 0
    THEN [w EXCEPT !.buf = @ \o p]
    ELSE LET remain == w.limit - Len(w.buf)
         IN  IF remain <= 0
             THEN [w EXCEPT !.truncated = TRUE]
             ELSE IF Len(p) <= remain
                  THEN [w EXCEPT !.buf = @ \o p]
                  ELSE [w EXCEPT !.buf = @ \o SubSeq(p, 1, remain),
                                 !.truncated = TRUE]

\* The n that Write returns: every branch reports len(p) and a nil error.
LimitedWriteN(w, p) == Len(p)

\* The payloads io.Copy hands to Write: the nr > 0 bytes of one Read.
Chunks == UNION {[1..n -> Byte] : n \in 1..MaxChunk}

\* One Write call on the writer.
Write(p) ==
    /\ Len(written) + Len(p) <= MaxTotal
    /\ lw' = LimitedWrite(lw, p)
    /\ lastN' = LimitedWriteN(lw, p)
    /\ written' = written \o p
    /\ UNCHANGED <<xvars, pvars, mvars>>

WriterNext == \E p \in Chunks : Write(p)


(***************************************************************************)
(* The registry of internal/proc/proc.go: its data                         *)
(***************************************************************************)
\* The process objects Spawn can make, and the process ids the kernel
\* hands out: fewer ids than the kernel has, so that an id comes back.
Objs == 1..MaxProcs
Pids == {101, 102}

\* A process object that Spawn has not made yet. The fields of struct
\* process are exitCode, done, out (stdoutBuf, stderrBuf and their
\* truncated flags) and tty; pid is cmd.Process.Pid; the others describe
\* the child and the goroutines around it.
NoProc ==
    [call |-> "none",     \* Spawn: "none" | "started" | "ok" | "error"
     pid |-> 0,
     tty |-> FALSE,
     termed |-> FALSE,    \* history: a Kill of this process with the default
                          \* signal, sent while no Wait on its pid was in
                          \* progress, ends its child, and no Wait has
                          \* observed its completion yet
     os |-> "none",       \* the child: "none" | "running" | "zombie" | "reaped"
     dying |-> FALSE,     \* a fatal signal is pending on the child
     status |-> 0,        \* its wait status: exit code, or SignalledExit
     reaper |-> FALSE,    \* the reaper goroutine was started
     open |-> FALSE,      \* this end of the child's pipes is open
     exitCode |-> 0,
     done |-> FALSE,      \* the done channel is closed
     pipe |-> [stdout |-> 0, stderr |-> 0],   \* bytes written, not yet read
     out |-> [stdout |-> [len |-> 0, limit |-> DefaultMaxIO, truncated |-> FALSE],
              stderr |-> [len |-> 0, limit |-> DefaultMaxIO, truncated |-> FALSE]],
     wrote |-> [stdout |-> 0, stderr |-> 0],  \* history: bytes the child wrote
     nin |-> 0,           \* write_stdin calls the child received
     waited |-> FALSE]    \* history: a Wait returned its completion

\* No Wait call is in progress. timedOut is history: the process, tracked
\* at that time, of the last Wait that ended by its timeout, until a Wait
\* observes its completion.
NoWaiter == [pc |-> "idle", pid |-> 0, obj |-> 0, timedOut |-> 0]

\* The fields of SpawnResponse, StdinResponse, WaitResponse, KillResponse
\* and ListResponse in one record; pid is the pid of the request; obj, sent
\* audited and logErr are history: the process object the call worked on,
\* the <<target, signal>> it passed to syscall.Kill, whether it reached
\* audit, and what became of the line audit had to append.
NoResp ==
    [op |-> "none", pid |-> 0, Pid |-> 0, Error |-> "", ExitCode |-> 0,
     Stdout |-> 0, Stderr |-> 0, Truncated |-> FALSE, Killed |-> FALSE,
     BytesWritten |-> 0, Processes |-> {}, obj |-> 0, sent |-> <<>>,
     audited |-> FALSE, logErr |-> ""]

\* No call of the registry was made.
ProcIdle ==
    /\ processes = [q \in Pids |-> 0]
    /\ procs = [o \in Objs |-> NoProc]
    /\ waiter = NoWaiter
    /\ pres = NoResp

(***************************************************************************)
(* Admission control (internal/obs): its data                              *)
(***************************************************************************)
\* The calls of the handler Middleware returns, and the tool names they
\* carry: a tool whose handler watches its context (proc.Wait selects on
\* ctx.Done) and one whose handler does not (proc.Stdin).
CallIds == 1..MaxCalls
Tools == {"proc.wait", "proc.stdin"}

\* One token of a limiter, in the unit the model counts tokens in: a limit
\* of r tenths of a token per second adds r units per millisecond.
TokenUnit == 1000 * 10

\* The value of an environment variable that nothing has read yet.
Unread == <<"?">>

\* No limiter: the call has made none.
NoLimiter == [limit |-> 0, burst |-> 0, tokens |-> 0, last |-> 0,
              lastEvent |-> 0]

\* A call that was not made yet. ctx is the caller's context: deadline
\* (0: none) and ctxErr (ctx.Err(), "" for nil); ctx2 is the context made at
\* line 121. lim is the limiter getLimiter returned (the call that made
\* it, 0: none yet; a call that made one has its own), timeToAct the
\* reservation of lim.Wait. The others are
\* history: at is the step that returned the error err, acquiredAt the
\* time the slot was acquired, invoked whether next was called, acted
\* whether the child did what the handler waits for, waitedSem whether the
\* context was done while the call was blocked on sem.
NoCall ==
    [pc |-> "idle",       \* "idle" | "getlim" | "limwait" | "select"
                          \* | "semwait" | "running" | "done"
     tool |-> "",
     deadline |-> 0,
     ctxErr |-> "",
     lim |-> 0,
     timeToAct |-> 0,
     acquiredAt |-> 0,
     ctx2Deadline |-> 0,
     ctx2Err |-> "",
     invoked |-> FALSE,
     acted |-> FALSE,
     waitedSem |-> FALSE,
     at |-> "",
     err |-> ""]

\* The package as its declarations leave it, before init and any call.
MwIdle ==
    /\ maxConcurrency = InitialMaxConcurrency
    /\ defaultRPS = InitialRPS
    /\ defaultTimeout = InitialTimeout
    /\ sem = 0
    /\ rateLimiters = [t \in Tools |-> 0]
    /\ mw = [c \in CallIds |-> NoCall]
    /\ clock = [now |-> 0, ticks |-> 0]
    /\ environ = [t \in Tools |-> Unread]
    /\ limiters = [c \in CallIds |-> NoLimiter]
    /\ calls = [t \in Tools |-> 0]
    /\ errors = [t \in Tools |-> 0]
    /\ timeouts = [t \in Tools |-> 0]
    /\ durations = [t \in Tools |-> 0]

\* No execute call is in progress.
ExecIdle ==
    /\ in = [Cmd |-> <<>>, TimeoutMs |-> 0, MaxBytes |-> 0, DryRun |-> FALSE]
    /\ allowPatterns = {}
    /\ denyPatterns = {}
    /\ pc = "idle"
    /\ timeout = 0
    /\ elapsed = 0
    /\ ctxErr = "nil"
    /\ child = "none"
    /\ childSig = FALSE
    /\ childStatus = 0
    /\ watch = "off"
    /\ watchErr = "nil"
    /\ runErr = "nil"
    /\ desc = [state |-> "none", pipes |-> FALSE, sig |-> FALSE]
    /\ stdoutW = [len |-> 0, limit |-> 0, truncated |-> FALSE]
    /\ stderrW = [len |-> 0, limit |-> 0, truncated |-> FALSE]
    /\ writes = 0
    /\ signals = {}
    /\ spawned = 0
    /\ resp = [Stdout |-> 0, Stderr |-> 0, ExitCode |-> 0,
               StdoutTruncated |-> FALSE, StderrTruncated |-> FALSE,
               Error |-> ""]
    /\ path = "none"
    /\ auditCalls = 0
    /\ logLines = 0
    /\ expiredRunning = FALSE
    /\ exitedFirst = FALSE

\* A fresh writer over an empty buffer, as Run and Spawn construct it.
WriterInit ==
    /\ lw \in [buf : {<<>>}, limit : (-1)..MaxLimit, truncated : {FALSE}]
    /\ written = <<>>
    /\ lastN = 0
    /\ ExecIdle
    /\ ProcIdle
    /\ MwIdle

WriterSpec == WriterInit /\ [][WriterNext]_vars

(***************************************************************************)
(* shell.Run: requests, configuration, pure parts                          *)
(***************************************************************************)
\* Command texts, as sequences of characters.
Cmds == {<<>>, <<"l", "s">>, <<"r", "m">>}

\* A compiled pattern is represented by the set of commands it matches.
Patterns == {{<<"l", "s">>}, {<<"r", "m">>}}
MatchString(re, cmd) == cmd \in re

Requests == [Cmd : Cmds, TimeoutMs : {0, 100}, MaxBytes : {0, 2}, DryRun : BOOLEAN]

\* Exit codes a command may end with by itself.
ExitCodes == {0, 7, 124}

\* Sizes of the chunks a process writes to a stream.
ChunkSizes == {1, DefaultMaxIO}

\* Instants at which the model observes the clock (ms).
Times == {0, 100, 60000}

\* func allowed(cmd string) bool
allowed(cmd) ==
    /\ allowPatterns # {} => \E re \in allowPatterns : MatchString(re, cmd)
    /\ \A re \in denyPatterns : ~MatchString(re, cmd)

ZeroResp == [Stdout |-> 0, Stderr |-> 0, ExitCode |-> 0,
             StdoutTruncated |-> FALSE, StderrTruncated |-> FALSE,
             Error |-> ""]

\* limit := DefaultMaxIO; if in.MaxBytes > 0 { limit = int(in.MaxBytes) }
Limit(req) == IF req.MaxBytes > 0 THEN req.MaxBytes ELSE DefaultMaxIO

\* timeout := DefaultTimeout; if in.TimeoutMs > 0 { ... }
Timeout(req) == IF req.TimeoutMs > 0 THEN req.TimeoutMs ELSE DefaultTimeout

\* Mutant: the command is not validated.
EarlyReturnNoValidation(req) ==
    IF ~allowed(req.Cmd)
    THEN [ret |-> TRUE, audited |-> TRUE, path |-> "policy",
          resp |-> [ZeroResp EXCEPT !.Stderr = BlockedMsgLen,
                                    !.ExitCode = BlockedExit,
                                    !.Error = "command blocked"]]
    ELSE IF req.DryRun
    THEN [ret |-> TRUE, audited |-> TRUE, path |-> "dry_run",
          resp |-> [ZeroResp EXCEPT !.Stdout = DryRunPrefixLen + Len(req.Cmd)]]
    ELSE [ret |-> FALSE, audited |-> FALSE, path |-> "none", resp |-> ZeroResp]

\* Mutant: the dry-run short-circuit comes before the policy check.
EarlyReturnDryRunFirst(req) ==
    IF req.Cmd = <<>>
    THEN [ret |-> TRUE, audited |-> FALSE, path |-> "validation",
          resp |-> [ZeroResp EXCEPT !.ExitCode = CmdRequiredExit,
                                    !.Error = "cmd is required"]]
    ELSE IF req.DryRun
    THEN [ret |-> TRUE, audited |-> TRUE, path |-> "dry_run",
          resp |-> [ZeroResp EXCEPT !.Stdout = DryRunPrefixLen + Len(req.Cmd)]]
    ELSE IF ~allowed(req.Cmd)
    THEN [ret |-> TRUE, audited |-> TRUE, path |-> "policy",
          resp |-> [ZeroResp EXCEPT !.Stderr = BlockedMsgLen,
                                    !.ExitCode = BlockedExit,
                                    !.Error = "command blocked"]]
    ELSE [ret |-> FALSE, audited |-> FALSE, path |-> "none", resp |-> ZeroResp]

\* Mutant: dry_run is ignored.
EarlyReturnNoDryRun(req) ==
    IF req.Cmd = <<>>
    THEN [ret |-> TRUE, audited |-> FALSE, path |-> "validation",
          resp |-> [ZeroResp EXCEPT !.ExitCode = CmdRequiredExit,
                                    !.Error = "cmd is required"]]
    ELSE IF ~allowed(req.Cmd)
    THEN [ret |-> TRUE, audited |-> TRUE, path |-> "policy",
          resp |-> [ZeroResp EXCEPT !.Stderr = BlockedMsgLen,
                                    !.ExitCode = BlockedExit,
                                    !.Error = "command blocked"]]
    ELSE [ret |-> FALSE, audited |-> FALSE, path |-> "none", resp |-> ZeroResp]

\* The returns of Run that precede the creation of the subprocess:
\* empty command, policy rejection, dry run, in the order of the code.
EarlyReturn(req) ==
    IF req.Cmd = <<>>
    THEN [ret |-> TRUE, audited |-> FALSE, path |-> "validation",
          resp |-> [ZeroResp EXCEPT !.ExitCode = CmdRequiredExit,
                                    !.Error = "cmd is required"]]
    ELSE IF ~allowed(req.Cmd)
    THEN [ret |-> TRUE, audited |-> TRUE, path |-> "policy",
          resp |-> [ZeroResp EXCEPT !.Stderr = BlockedMsgLen,
                                    !.ExitCode = BlockedExit,
                                    !.Error = "command blocked"]]
    ELSE IF req.DryRun
    THEN [ret |-> TRUE, audited |-> TRUE, path |-> "dry_run",
          resp |-> [ZeroResp EXCEPT !.Stdout = DryRunPrefixLen + Len(req.Cmd)]]
    ELSE [ret |-> FALSE, audited |-> FALSE, path |-> "none", resp |-> ZeroResp]

\* Mutant: the writer appends without looking at the limit.
LimitedWriteLenUncapped(w, n) == [w EXCEPT !.len = @ + n]

\* limitedWriter.Write of internal/shell/tools.go on the length of the
\* buffer: n is len(p).
LimitedWriteLen(w, n) ==
    IF w.limit <= 0
    THEN [w EXCEPT !.len = @ + n]
    ELSE LET remain == w.limit - w.len
         IN  IF remain <= 0
             THEN [w EXCEPT !.truncated = TRUE]
             ELSE IF n <= remain
                  THEN [w EXCEPT !.len = @ + n]
                  ELSE [w EXCEPT !.len = @ + remain, !.truncated = TRUE]

\* Mutant: the timeout is recognised from the error of cmd.Run instead of
\* from ctx.Err().
ExitPathFromRunErr(rerr, cerr) ==
    IF rerr = "nil" THEN "ok"
    ELSE IF rerr = "DeadlineExceeded" THEN "timeout"
    ELSE IF rerr = "ExitError" THEN "exiterror"
    ELSE "other"

\* The branch Run takes once cmd.Run has returned rerr, with ctx.Err() = cerr.
ExitPath(rerr, cerr) ==
    IF rerr = "nil" THEN "ok"
    ELSE IF cerr = "DeadlineExceeded" THEN "timeout"
    ELSE IF rerr = "ExitError" THEN "exiterror"
    ELSE "other"

\* The exit code Run reports; status is the wait status of the child
\* (ExitError.ExitCode() is -1 for a child ended by a signal).
ExitOf(rerr, cerr, status) ==
    LET p == ExitPath(rerr, cerr)
    IN  IF p = "ok" THEN 0
        ELSE IF p = "timeout" THEN TimeoutExit
        ELSE IF p = "exiterror" THEN status
        ELSE LaunchFailExit

\* The ExecResponse Run builds from the captured streams.
Response(exit) ==
    [Stdout |-> stdoutW.len,
     Stderr |-> IF exit = TimeoutExit /\ stderrW.len = 0
                THEN TimedOutLen ELSE stderrW.len,
     ExitCode |-> exit,
     StdoutTruncated |-> stdoutW.truncated,
     StderrTruncated |-> stderrW.truncated,
     Error |-> ""]

\* func audit: best effort, one line appended unless the log cannot be
\* created, opened or written.
Audit ==
    /\ auditCalls' = auditCalls + 1
    /\ \E ok \in BOOLEAN : logLines' = IF ok THEN logLines + 1 ELSE logLines


(***************************************************************************)
(* shell.Run: the steps of the call                                        *)
(***************************************************************************)
cfg == <<in, allowPatterns, denyPatterns>>

\* Positions at which the deadline-bound context exists.
Active == {"ctx", "wait", "ctxresult", "copy", "check"}

\* Positions at which the output copying goroutines of os/exec run.
Copying == {"wait", "ctxresult", "copy"}

\* Run up to the creation of the context: validation, policy, dry run.
RunValidate ==
    /\ pc = "start"
    /\ LET e == EarlyReturn(in)
       IN  IF e.ret
           THEN /\ pc' = "done"
                /\ resp' = e.resp
                /\ path' = e.path
                /\ IF e.audited THEN Audit
                                ELSE UNCHANGED <<auditCalls, logLines>>
                /\ UNCHANGED timeout
           ELSE /\ pc' = "ctx"
                /\ timeout' = Timeout(in)
                /\ UNCHANGED <<resp, path, auditCalls, logLines>>
    /\ UNCHANGED <<wvars, mvars, pvars, cfg, elapsed, ctxErr, child, childSig, childStatus,
                   watch, watchErr, runErr, desc, stdoutW, stderrW, writes,
                   signals, spawned, hist>>

\* exec.CommandContext, the two limitedWriters, and the Start half of
\* cmd.Run: Start gives up when the context is already done, or fails to
\* launch bash, or starts the child in its own process group and arms the
\* context watcher.
RunStart ==
    /\ pc = "ctx"
    /\ stdoutW' = [len |-> 0, limit |-> Limit(in), truncated |-> FALSE]
    /\ stderrW' = [len |-> 0, limit |-> Limit(in), truncated |-> FALSE]
    /\ IF ctxErr # "nil"
       THEN /\ runErr' = ctxErr
            /\ pc' = "check"
            /\ UNCHANGED <<child, watch, spawned>>
       ELSE \E ok \in BOOLEAN :
              IF ok
              THEN /\ child' = "running"
                   /\ watch' = "armed"
                   /\ spawned' = spawned + 1
                   /\ pc' = "wait"
                   /\ UNCHANGED runErr
              ELSE /\ runErr' = "StartError"
                   /\ pc' = "check"
                   /\ UNCHANGED <<child, watch, spawned>>
    /\ UNCHANGED <<wvars, mvars, pvars, cfg, timeout, elapsed, ctxErr, childSig,
                   childStatus, watchErr, desc, writes, signals, resp, path,
                   auditCalls, logLines, hist>>

\* os/exec's watcher goroutine takes the <-ctx.Done() branch and calls
\* Process.Kill: SIGKILL to the pid of the child alone. Kill reports
\* os.ErrProcessDone, and the watcher no error, once the child was reaped.
WatchCtx ==
    /\ watch = "armed"
    /\ ctxErr # "nil"
    /\ watch' = "fired"
    /\ IF child \in {"running", "zombie"}
       THEN /\ signals' = signals \cup {<<"pid", "SIGKILL">>}
            /\ childSig' = (child = "running")
            /\ watchErr' = ctxErr
       ELSE /\ watchErr' = "nil"
            /\ UNCHANGED <<signals, childSig>>
    /\ UNCHANGED <<wvars, mvars, pvars, cfg, pc, timeout, elapsed, ctxErr, child,
                   childStatus, runErr, desc, stdoutW, stderrW, writes,
                   spawned, resp, path, auditCalls, logLines, hist>>

\* cmd.Wait: Process.Wait reaps the child.
ProcessWait ==
    /\ pc = "wait"
    /\ child = "zombie"
    /\ child' = "reaped"
    /\ pc' = "ctxresult"
    /\ UNCHANGED <<wvars, mvars, pvars, cfg, timeout, elapsed, ctxErr, childSig,
                   childStatus, watch, watchErr, runErr, desc, stdoutW,
                   stderrW, writes, signals, spawned, resp, path, auditCalls,
                   logLines, hist>>

\* cmd.Wait: receive from the watcher, which either has fired or takes the
\* send branch of its select now (also when ctx.Done() is ready as well).
CtxResult ==
    /\ pc = "ctxresult"
    /\ watch \in {"armed", "fired"}
    /\ watch' = "done"
    /\ pc' = "copy"
    /\ UNCHANGED <<wvars, mvars, pvars, cfg, timeout, elapsed, ctxErr, child, childSig,
                   childStatus, watchErr, runErr, desc, stdoutW, stderrW,
                   writes, signals, spawned, resp, path, auditCalls,
                   logLines, hist>>

\* The error cmd.Wait returns: an ExitError for an unsuccessful status,
\* else the error of the watcher.
WaitErr(status, werr) == IF status # 0 THEN "ExitError" ELSE werr

\* cmd.Wait: awaitGoroutines (WaitDelay is zero) returns when the copying
\* goroutines have seen EOF, that is when no process holds the write ends.
CopyDone ==
    /\ pc = "copy"
    /\ ~(desc.state = "alive" /\ desc.pipes)
    /\ runErr' = WaitErr(childStatus, watchErr)
    /\ pc' = "check"
    /\ UNCHANGED <<wvars, mvars, pvars, cfg, timeout, elapsed, ctxErr, child, childSig,
                   childStatus, watch, watchErr, desc, stdoutW, stderrW,
                   writes, signals, spawned, resp, path, auditCalls,
                   logLines, hist>>

\* Run after cmd.Run: classification of runErr, the group kill, the
\* response, the audit record.
RunClassify ==
    /\ pc = "check"
    /\ LET exit == ExitOf(runErr, ctxErr, childStatus)
           p == ExitPath(runErr, ctxErr)
       IN  /\ resp' = Response(exit)
           /\ path' = p
           /\ IF p = "timeout" /\ child # "none"
              THEN /\ signals' = signals \cup {<<"pgid", "SIGKILL">>}
                   /\ desc' = IF desc.state = "alive"
                              THEN [desc EXCEPT !.sig = TRUE] ELSE desc
              ELSE UNCHANGED <<signals, desc>>
    /\ Audit
    /\ pc' = "done"
    /\ UNCHANGED <<wvars, mvars, pvars, cfg, timeout, elapsed, ctxErr, child, childSig,
                   childStatus, watch, watchErr, runErr, stdoutW, stderrW,
                   writes, spawned, hist>>

(***************************************************************************)
(* Environment: the clock, the caller, the command's processes             *)
(***************************************************************************)
TimePasses(t) ==
    /\ pc \in Active
    /\ t > elapsed
    /\ elapsed' = t
    /\ UNCHANGED <<wvars, mvars, pvars, cfg, pc, timeout, ctxErr, child, childSig,
                   childStatus, watch, watchErr, runErr, desc, stdoutW,
                   stderrW, writes, signals, spawned, resp, path, auditCalls,
                   logLines, hist>>

\* The timer of context.WithTimeout(ctx, timeout) fires.
DeadlineExpires ==
    /\ pc \in Active
    /\ ctxErr = "nil"
    /\ elapsed >= timeout
    /\ ctxErr' = "DeadlineExceeded"
    /\ expiredRunning' = (child = "running")
    /\ UNCHANGED <<wvars, mvars, pvars, cfg, pc, timeout, elapsed, child, childSig,
                   childStatus, watch, watchErr, runErr, desc, stdoutW,
                   stderrW, writes, signals, spawned, resp, path, auditCalls,
                   logLines, exitedFirst>>

\* The caller's context ends first: cancelled, or its own earlier deadline.
CallerDone(e) ==
    /\ pc \in Active
    /\ ctxErr = "nil"
    /\ ctxErr' = e
    /\ UNCHANGED <<wvars, mvars, pvars, cfg, pc, timeout, elapsed, child, childSig,
                   childStatus, watch, watchErr, runErr, desc, stdoutW,
                   stderrW, writes, signals, spawned, resp, path, auditCalls,
                   logLines, hist>>

\* The child writes n bytes to its stdout or stderr; the copying goroutine
\* passes them to the limitedWriter.
ChildWrites(s, n) ==
    /\ child = "running"
    /\ ~childSig
    /\ writes < MaxWrites
    /\ writes' = writes + 1
    /\ IF s = "stdout"
       THEN stdoutW' = LimitedWriteLen(stdoutW, n) /\ UNCHANGED stderrW
       ELSE stderrW' = LimitedWriteLen(stderrW, n) /\ UNCHANGED stdoutW
    /\ UNCHANGED <<wvars, mvars, pvars, cfg, pc, timeout, elapsed, ctxErr, child, childSig,
                   childStatus, watch, watchErr, runErr, desc, signals,
                   spawned, resp, path, auditCalls, logLines, hist>>

\* The child starts a descendant in its process group, which inherits the
\* pipes or not (redirected output).
ChildForks(p) ==
    /\ child = "running"
    /\ ~childSig
    /\ desc.state = "none"
    /\ desc' = [state |-> "alive", pipes |-> p, sig |-> FALSE]
    /\ UNCHANGED <<wvars, mvars, pvars, cfg, pc, timeout, elapsed, ctxErr, child, childSig,
                   childStatus, watch, watchErr, runErr, stdoutW, stderrW,
                   writes, signals, spawned, resp, path, auditCalls,
                   logLines, hist>>

\* The child terminates by itself with exit code k.
ChildExits(k) ==
    /\ child = "running"
    /\ ~childSig
    /\ child' = "zombie"
    /\ childStatus' = k
    /\ exitedFirst' = (ctxErr = "nil")
    /\ UNCHANGED <<wvars, mvars, pvars, cfg, pc, timeout, elapsed, ctxErr, childSig,
                   watch, watchErr, runErr, desc, stdoutW, stderrW, writes,
                   signals, spawned, resp, path, auditCalls, logLines,
                   expiredRunning>>

\* The pending SIGKILL terminates the child.
ChildDies ==
    /\ child = "running"
    /\ childSig
    /\ child' = "zombie"
    /\ childStatus' = SignalledExit
    /\ UNCHANGED <<wvars, mvars, pvars, cfg, pc, timeout, elapsed, ctxErr, childSig,
                   watch, watchErr, runErr, desc, stdoutW, stderrW, writes,
                   signals, spawned, resp, path, auditCalls, logLines,
                   hist>>

DescWrites(s, n) ==
    /\ desc.state = "alive"
    /\ desc.pipes
    /\ ~desc.sig
    /\ pc \in Copying
    /\ writes < MaxWrites
    /\ writes' = writes + 1
    /\ IF s = "stdout"
       THEN stdoutW' = LimitedWriteLen(stdoutW, n) /\ UNCHANGED stderrW
       ELSE stderrW' = LimitedWriteLen(stderrW, n) /\ UNCHANGED stdoutW
    /\ UNCHANGED <<wvars, mvars, pvars, cfg, pc, timeout, elapsed, ctxErr, child, childSig,
                   childStatus, watch, watchErr, runErr, desc, signals,
                   spawned, resp, path, auditCalls, logLines, hist>>

DescClosesPipes ==
    /\ desc.state = "alive"
    /\ desc.pipes
    /\ ~desc.sig
    /\ desc' = [desc EXCEPT !.pipes = FALSE]
    /\ UNCHANGED <<wvars, mvars, pvars, cfg, pc, timeout, elapsed, ctxErr, child, childSig,
                   childStatus, watch, watchErr, runErr, stdoutW, stderrW,
                   writes, signals, spawned, resp, path, auditCalls,
                   logLines, hist>>

\* The descendant terminates by itself.
DescExits ==
    /\ desc.state = "alive"
    /\ ~desc.sig
    /\ desc' = [desc EXCEPT !.state = "dead", !.pipes = FALSE]
    /\ UNCHANGED <<wvars, mvars, pvars, cfg, pc, timeout, elapsed, ctxErr, child, childSig,
                   childStatus, watch, watchErr, runErr, stdoutW, stderrW,
                   writes, signals, spawned, resp, path, auditCalls,
                   logLines, hist>>

\* The pending SIGKILL terminates the descendant.
DescDies ==
    /\ desc.state = "alive"
    /\ desc.sig
    /\ desc' = [desc EXCEPT !.state = "dead", !.pipes = FALSE]
    /\ UNCHANGED <<wvars, mvars, pvars, cfg, pc, timeout, elapsed, ctxErr, child, childSig,
                   childStatus, watch, watchErr, runErr, stdoutW, stderrW,
                   writes, signals, spawned, resp, path, auditCalls,
                   logLines, hist>>

Streams == {"stdout", "stderr"}

Init ==
    /\ lw = [buf |-> <<>>, limit |-> 0, truncated |-> FALSE]
    /\ written = <<>>
    /\ lastN = 0
    /\ in \in Requests
    /\ allowPatterns \in {{}, {{<<"l", "s">>}}}
    /\ denyPatterns \in {{}, {{<<"r", "m">>}}}
    /\ pc = "start"
    /\ timeout = 0
    /\ elapsed = 0
    /\ ctxErr = "nil"
    /\ child = "none"
    /\ childSig = FALSE
    /\ childStatus = 0
    /\ watch = "off"
    /\ watchErr = "nil"
    /\ runErr = "nil"
    /\ desc = [state |-> "none", pipes |-> FALSE, sig |-> FALSE]
    /\ stdoutW = [len |-> 0, limit |-> 0, truncated |-> FALSE]
    /\ stderrW = [len |-> 0, limit |-> 0, truncated |-> FALSE]
    /\ writes = 0
    /\ signals = {}
    /\ spawned = 0
    /\ resp = ZeroResp
    /\ path = "none"
    /\ auditCalls = 0
    /\ logLines = 0
    /\ expiredRunning = FALSE
    /\ exitedFirst = FALSE
    /\ ProcIdle
    /\ MwIdle

Next ==
    \/ RunValidate
    \/ RunStart
    \/ WatchCtx
    \/ ProcessWait
    \/ CtxResult
    \/ CopyDone
    \/ RunClassify
    \/ \E t \in Times : TimePasses(t)
    \/ DeadlineExpires
    \/ \E e \in {"Canceled", "DeadlineExceeded"} : CallerDone(e)
    \/ \E s \in Streams, n \in ChunkSizes : ChildWrites(s, n)
    \/ \E p \in BOOLEAN : ChildForks(p)
    \/ \E k \in ExitCodes : ChildExits(k)
    \/ ChildDies
    \/ \E s \in Streams, n \in ChunkSizes : DescWrites(s, n)
    \/ DescClosesPipes
    \/ DescExits
    \/ DescDies

Spec == Init /\ [][Next]_vars

\* The steps of this process and the delivery of SIGKILL by the kernel
\* are eventually taken; what the command and the caller do by themselves,
\* and the passing of time, are not forced.
Fairness ==
    /\ WF_vars(RunValidate)
    /\ WF_vars(RunStart)
    /\ WF_vars(WatchCtx)
    /\ WF_vars(ProcessWait)
    /\ WF_vars(CtxResult)
    /\ WF_vars(CopyDone)
    /\ WF_vars(RunClassify)
    /\ WF_vars(ChildDies)
    /\ WF_vars(DescDies)

FairSpec == Spec /\ Fairness

(***************************************************************************)
(* runtime.ShScriptWriteAndRun: the write-script-and-run variant           *)
(***************************************************************************)
\* ShRequest: the interpreter line and the text of the script.
ShRequests == [Shebang : {"", "/bin/bash"}, Content : {"", "echo hi"},
               TimeoutMs : {0, 100}, MaxBytes : {0, 2}]

\* ShScriptWriteAndRun up to exec.CommandContext: a request without
\* shebang or without content returns at once, with no audit record; so
\* does a failure of os.MkdirTemp or of os.WriteFile (ok = FALSE); else
\* the script is written and the call goes on as Run does.
ShScriptValidate(ok) ==
    /\ pc = "start"
    /\ IF in.Shebang = "" \/ in.Content = ""
       THEN /\ pc' = "done"
            /\ resp' = [ZeroResp EXCEPT
                           !.ExitCode = ShInputExit,
                           !.Error = "shebang and content required"]
            /\ path' = "validation"
            /\ UNCHANGED timeout
       ELSE IF ~ok
       THEN /\ pc' = "done"
            /\ resp' = [ZeroResp EXCEPT !.ExitCode = ShSetupExit,
                                        !.Error = "mkdir or write failed"]
            /\ path' = "setup"
            /\ timeout' = Timeout(in)
       ELSE /\ pc' = "ctx"
            /\ timeout' = Timeout(in)
            /\ UNCHANGED <<resp, path>>
    /\ UNCHANGED <<wvars, mvars, pvars, cfg, elapsed, ctxErr, child, childSig,
                   childStatus, watch, watchErr, runErr, desc, stdoutW,
                   stderrW, writes, signals, spawned, auditCalls, logLines,
                   hist>>

\* A call of ShScriptWriteAndRun: the runtime package has no policy.
ScriptInit ==
    /\ lw = [buf |-> <<>>, limit |-> 0, truncated |-> FALSE]
    /\ written = <<>>
    /\ lastN = 0
    /\ in \in ShRequests
    /\ allowPatterns = {}
    /\ denyPatterns = {}
    /\ pc = "start"
    /\ timeout = 0
    /\ elapsed = 0
    /\ ctxErr = "nil"
    /\ child = "none"
    /\ childSig = FALSE
    /\ childStatus = 0
    /\ watch = "off"
    /\ watchErr = "nil"
    /\ runErr = "nil"
    /\ desc = [state |-> "none", pipes |-> FALSE, sig |-> FALSE]
    /\ stdoutW = [len |-> 0, limit |-> 0, truncated |-> FALSE]
    /\ stderrW = [len |-> 0, limit |-> 0, truncated |-> FALSE]
    /\ writes = 0
    /\ signals = {}
    /\ spawned = 0
    /\ resp = ZeroResp
    /\ path = "none"
    /\ auditCalls = 0
    /\ logLines = 0
    /\ expiredRunning = FALSE
    /\ exitedFirst = FALSE
    /\ ProcIdle
    /\ MwIdle

\* From exec.CommandContext on, ShScriptWriteAndRun is the code of Run
\* (part_010 lines 379-430, part_015 lines 265-336): the steps are the
\* same, the child being the script instead of bash -lc.
ScriptNext ==
    \/ \E ok \in BOOLEAN : ShScriptValidate(ok)
    \/ RunStart
    \/ WatchCtx
    \/ ProcessWait
    \/ CtxResult
    \/ CopyDone
    \/ RunClassify
    \/ \E t \in Times : TimePasses(t)
    \/ DeadlineExpires
    \/ \E e \in {"Canceled", "DeadlineExceeded"} : CallerDone(e)
    \/ \E s \in Streams, n \in ChunkSizes : ChildWrites(s, n)
    \/ \E p \in BOOLEAN : ChildForks(p)
    \/ \E k \in ExitCodes : ChildExits(k)
    \/ ChildDies
    \/ \E s \in Streams, n \in ChunkSizes : DescWrites(s, n)
    \/ DescClosesPipes
    \/ DescExits
    \/ DescDies

ScriptSpec == ScriptInit /\ [][ScriptNext]_vars


(***************************************************************************)
(* The registry of internal/proc/proc.go: Spawn                            *)
(***************************************************************************)
SpawnRequests == [Cmd : {"", "bash"}, TTY : BOOLEAN]
ProcExitCodes == {0, 7}
Signals == {0, SIGKILL}
StdinSizes == {1, DefaultMaxStdin + 1}

\* The bytes the children have written so far, and the write_stdin calls
\* that have reached a child, over the objects 1..n.
RECURSIVE BytesWritten(_), StdinCalls(_)
BytesWritten(n) ==
    IF n = 0 THEN 0
    ELSE procs[n].wrote.stdout + procs[n].wrote.stderr + BytesWritten(n - 1)
StdinCalls(n) == IF n = 0 THEN 0 ELSE procs[n].nin + StdinCalls(n - 1)

\* p := processes[pid] under procMu: 0 stands for nil.
Lookup(pid) == IF pid \in Pids THEN processes[pid] ELSE 0

\* The process ids the kernel can give to a new child: those of no process
\* that runs or waits to be reaped.
FreePids ==
    {q \in Pids : \A o \in Objs :
        ~(procs[o].pid = q /\ procs[o].os \in {"running", "zombie"})}

\* The object the next Spawn that starts a child makes.
IsNextObj(o) ==
    /\ procs[o].call = "none"
    /\ \A o2 \in Objs : o2 < o => procs[o2].call # "none"

\* A child as cmd.Start (or pty.Start) leaves it: running in its own
\* process group, this end of its pipes (or of its terminal) open.
Started(q, tty) ==
    [NoProc EXCEPT !.pid = q, !.tty = tty,
                   !.os = "running", !.open = TRUE]

\* What becomes of the line audit has to append, lines 349-362: it is
\* written, or MkdirAll, OpenFile or Encode fails.
AuditOutcomes == {"written", "failed"}

\* Mutant: the failure of audit becomes the error of the response.
AuditedSurfaced(r, e) ==
    [r EXCEPT !.audited = TRUE, !.logErr = e,
              !.Error = IF e = "failed" THEN "audit failed" ELSE @]

\* The response r of a call that called audit(rec) before it returned:
\* audit returns nothing, so what became of the line changes nothing.
Audited(r, e) == [r EXCEPT !.audited = TRUE, !.logErr = e]

\* Spawn, lines 132-194: the returns that start nothing. An empty cmd is
\* refused; otherwise pty.Start, one of the three pipes or cmd.Start
\* fails with the error of the operating system.
SpawnFail(req) ==
    /\ pres = NoResp
    /\ pres' = [NoResp EXCEPT !.op = "spawn",
                              !.Error = IF req.Cmd = "" THEN "cmd is required"
                                        ELSE "start failed"]
    /\ UNCHANGED <<wvars, mvars, xvars, processes, procs, waiter>>

\* Spawn with TTY set, lines 160-194: pty.Start succeeds, which starts cmd
\* on the terminal, and the goroutine copying the terminal is started;
\* then line 192 calls cmd.Start on the command that is already started,
\* which os/exec refuses, and Spawn returns that error.
SpawnTTY(req, o, q) ==
    /\ pres = NoResp
    /\ req.Cmd # "" /\ req.TTY
    /\ IsNextObj(o)
    /\ q \in FreePids
    /\ procs' = [procs EXCEPT ![o] =
                    [Started(q, TRUE) EXCEPT !.call = "error"]]
    /\ pres' = [NoResp EXCEPT !.op = "spawn", !.Error = "exec: already started",
                              !.obj = o]
    /\ UNCHANGED <<wvars, mvars, xvars, processes, waiter>>

\* Spawn without TTY, lines 170-194: the pipes are made, the two copying
\* goroutines are started and cmd.Start succeeds; the kernel picks the pid.
SpawnStart(req, o, q) ==
    /\ pres = NoResp
    /\ req.Cmd # "" /\ ~req.TTY
    /\ IsNextObj(o)
    /\ q \in FreePids
    /\ procs' = [procs EXCEPT ![o] =
                    [Started(q, FALSE) EXCEPT !.call = "started"]]
    /\ pres' = NoResp
    /\ UNCHANGED <<wvars, mvars, xvars, processes, waiter>>

\* Spawn, lines 196-236: the process is stored under cmd.Process.Pid,
\* whatever the map holds there, the reaper is started, audit is called
\* and the pid is returned.
SpawnRegister(o) ==
    /\ pres = NoResp
    /\ procs[o].call = "started"
    /\ processes' = [processes EXCEPT ![procs[o].pid] = o]
    /\ procs' = [procs EXCEPT ![o].call = "ok", ![o].reaper = TRUE]
    /\ \E e \in AuditOutcomes :
          pres' = Audited([NoResp EXCEPT !.op = "spawn", !.Pid = procs[o].pid,
                                         !.obj = o], e)
    /\ UNCHANGED <<wvars, mvars, xvars, waiter>>

(***************************************************************************)
(* The child of a process object, and the goroutines Spawn started for it  *)
(***************************************************************************)
\* The child writes one byte on a stream: on its terminal in TTY mode, which
\* the one copying goroutine reads into stdoutBuf.
ProcWrites(o, s) ==
    /\ pres = NoResp
    /\ procs[o].os = "running" /\ ~procs[o].dying
    /\ BytesWritten(MaxProcs) < MaxOut
    /\ LET t == IF procs[o].tty THEN "stdout" ELSE s
       IN  procs' = [procs EXCEPT ![o].pipe[t] = @ + 1, ![o].wrote[t] = @ + 1]
    /\ pres' = NoResp
    /\ UNCHANGED <<wvars, mvars, xvars, processes, waiter>>

\* The child exits by itself.
ProcExits(o, k) ==
    /\ pres = NoResp
    /\ procs[o].os = "running" /\ ~procs[o].dying
    /\ procs' = [procs EXCEPT ![o].os = "zombie", ![o].status = k]
    /\ pres' = NoResp
    /\ UNCHANGED <<wvars, mvars, xvars, processes, waiter>>

\* The kernel delivers a fatal signal to the child.
ProcDies(o) ==
    /\ pres = NoResp
    /\ procs[o].os = "running" /\ procs[o].dying
    /\ procs' = [procs EXCEPT ![o].os = "zombie", ![o].status = SignalledExit,
                              ![o].dying = FALSE]
    /\ pres' = NoResp
    /\ UNCHANGED <<wvars, mvars, xvars, processes, waiter>>

\* The copying goroutine of stream s has bytes to move: its Read on the
\* pipe returns them and it writes them to the buffer of the stream,
\* under no lock and without telling anyone.
CanCopy(o, s) == procs[o].open /\ procs[o].pipe[s] > 0

\* io.Copy of a copying goroutine: one Read of what the pipe holds, one
\* Write of it to the limitedWriter of that stream.
CopyOut(o, s) ==
    /\ pres = NoResp
    /\ CanCopy(o, s)
    /\ procs' = [procs EXCEPT
                    ![o].out[s] = LimitedWriteLen(@, procs[o].pipe[s]),
                    ![o].pipe[s] = 0]
    /\ pres' = NoResp
    /\ UNCHANGED <<wvars, mvars, xvars, processes, waiter>>

\* The reaper, line 214: cmd.Wait returns once the child has exited. It
\* reaps the child, which frees its pid, and closes this end of the pipes
\* made by StdoutPipe, StderrPipe and StdinPipe without waiting for the
\* copying goroutines: what they had not read yet is gone.
Reap(o) ==
    /\ pres = NoResp
    /\ procs[o].reaper
    /\ procs[o].os = "zombie"
    /\ procs' = [procs EXCEPT ![o].os = "reaped", ![o].open = FALSE,
                              ![o].pipe = [stdout |-> 0, stderr |-> 0]]
    /\ pres' = NoResp
    /\ UNCHANGED <<wvars, mvars, xvars, processes, waiter>>

\* The exit code the reaper derives from the error of cmd.Wait, lines
\* 215-223.
ReaperExit(err, status) ==
    IF err = "nil" THEN 0
    ELSE IF err = "ExitError" THEN status
    ELSE ReaperFailExit

\* The reaper, lines 215-225: the exit code is stored, then done is closed.
ReaperDone(o) ==
    /\ pres = NoResp
    /\ procs[o].reaper
    /\ procs[o].os = "reaped"
    /\ ~procs[o].done
    /\ procs' = [procs EXCEPT
                    ![o].exitCode = ReaperExit(WaitErr(procs[o].status, "nil"),
                                               procs[o].status),
                    ![o].done = TRUE]
    /\ pres' = NoResp
    /\ UNCHANGED <<wvars, mvars, xvars, processes, waiter>>

(***************************************************************************)
(* The registry of internal/proc/proc.go: Stdin, Wait, Kill, List          *)
(***************************************************************************)
\* Stdin, lines 247-250: data longer than DefaultMaxStdin is cut.
StdinData(n) == IF n > DefaultMaxStdin THEN DefaultMaxStdin ELSE n

\* Mutant: the error of the write is swallowed and the call reports the
\* bytes as written.
StdinWriteSwallowed(p, n) == [n |-> n, err |-> ""]

\* What p.stdin.Write does with n bytes: an error once the reaper has
\* closed the pipe or the child has exited, else the child receives them.
StdinWrite(p, n) ==
    IF ~p.open THEN [n |-> 0, err |-> "file already closed"]
    ELSE IF p.os # "running" THEN [n |-> 0, err |-> "broken pipe"]
    ELSE [n |-> n, err |-> ""]

\* Mutant: an unknown pid is answered like a call that did nothing.
UnknownPidSilent(op, pid) == [NoResp EXCEPT !.op = op, !.pid = pid]

\* What Stdin, Wait and Kill return when processes[pid] is nil, lines 245,
\* 270 and 309.
UnknownPid(op, pid) ==
    [NoResp EXCEPT !.op = op, !.pid = pid, !.Error = "unknown pid",
                   !.ExitCode = IF op = "wait" THEN UnknownPidExit ELSE 0]

\* func Stdin, lines 239-262.
Stdin(pid, n) ==
    LET o == Lookup(pid)
        w == StdinWrite(procs[o], StdinData(n))
    IN  /\ pres = NoResp
        /\ IF o = 0
           THEN /\ pres' = UnknownPid("stdin", pid)
                /\ procs' = procs
           ELSE /\ w.err = "" => StdinCalls(MaxProcs) < MaxIn
                /\ LET r == [NoResp EXCEPT !.op = "stdin", !.pid = pid,
                                           !.obj = o, !.BytesWritten = w.n,
                                           !.Error = w.err]
                   IN  IF w.err = ""
                       THEN \E e \in AuditOutcomes : pres' = Audited(r, e)
                       ELSE pres' = r
                /\ procs' = IF w.err = ""
                            THEN [procs EXCEPT ![o].nin = @ + 1]
                            ELSE procs
        /\ UNCHANGED <<wvars, mvars, xvars, processes, waiter>>

\* What Wait returns for process o with the exit code given: the buffers
\* and flags as they are when it returns.
WaitResponse(pid, o, exit, err) ==
    [NoResp EXCEPT !.op = "wait", !.pid = pid, !.obj = o,
                   !.ExitCode = exit, !.Error = err,
                   !.Stdout = procs[o].out.stdout.len,
                   !.Stderr = procs[o].out.stderr.len,
                   !.Truncated = procs[o].out.stdout.truncated
                                 \/ procs[o].out.stderr.truncated]

\* func Wait, lines 264-277: the lookup, the return for an unknown pid,
\* and the context with the timeout of the call (the default or
\* timeout_ms): time is not counted here, WaitTimeout is the end of it.
WaitLookup(pid) ==
    /\ pres = NoResp
    /\ waiter.pc = "idle"
    /\ IF Lookup(pid) = 0
       THEN /\ pres' = UnknownPid("wait", pid)
            /\ waiter' = waiter
       ELSE /\ waiter' = [waiter EXCEPT !.pc = "select", !.pid = pid,
                                         !.obj = Lookup(pid)]
            /\ pres' = NoResp
    /\ UNCHANGED <<wvars, mvars, xvars, processes, procs>>

\* func Wait, lines 278-282: the context of the call is done, because its
\* timeout has passed or the caller has cancelled, and the select takes
\* the case of ctx.Done(), which it may also when p.done is closed.
WaitTimeout ==
    /\ pres = NoResp
    /\ waiter.pc = "select"
    /\ pres' = WaitResponse(waiter.pid, waiter.obj, WaitTimeoutExit, "timeout")
    /\ waiter' = [NoWaiter EXCEPT !.timedOut =
                      IF processes[waiter.pid] = waiter.obj
                      THEN waiter.obj ELSE waiter.timedOut]
    /\ UNCHANGED <<wvars, mvars, xvars, processes, procs>>

\* func Wait, line 298: delete(processes, in.Pid).
WaitDelete(pid) == [processes EXCEPT ![pid] = 0]

\* Mutant: the select of Wait goes on without the completion signal.
DoneCaseAlways(p) == TRUE

\* func Wait, line 279: the case <-p.done of the select can proceed, done
\* is closed.
DoneCase(p) == p.done

\* func Wait, lines 278-300: the select takes the case of p.done; the
\* response is built, audit is called and the entry of the pid is deleted.
WaitDone ==
    /\ pres = NoResp
    /\ waiter.pc = "select"
    /\ DoneCase(procs[waiter.obj])
    /\ \E e \in AuditOutcomes :
          pres' = Audited(WaitResponse(waiter.pid, waiter.obj,
                                       procs[waiter.obj].exitCode, ""), e)
    /\ processes' = WaitDelete(waiter.pid)
    /\ waiter' = [NoWaiter EXCEPT !.timedOut = IF waiter.timedOut = waiter.obj
                                               THEN 0 ELSE waiter.timedOut]
    /\ procs' = [procs EXCEPT ![waiter.obj].termed = FALSE,
                              ![waiter.obj].waited = TRUE]
    /\ UNCHANGED <<wvars, mvars, xvars>>

\* Mutant: the signal of the request is ignored.
KillSignalAlwaysTerm(sig) == SIGTERM

\* Kill, lines 311-314: the signal sent.
KillSignal(sig) == IF sig # 0 THEN sig ELSE SIGTERM

\* The processes of process group q: the children started with Setpgid
\* whose pid is q and which the kernel still knows.
Group(q) ==
    {x \in Objs : procs[x].pid = q /\ procs[x].os \in {"running", "zombie"}}

\* A signal that ends the child it reaches: SIGKILL always, SIGTERM
\* unless the child handles or ignores it.
Fatal(sig, handled) == sig = SIGKILL \/ (sig = SIGTERM /\ ~handled)

\* func Kill, lines 303-326: syscall.Kill(-pid, sig) fails when the group
\* has no process; otherwise every process of the group gets the signal.
Kill(pid, sig, handled) ==
    LET o == Lookup(pid)
        q == procs[o].pid
    IN  /\ pres = NoResp
        /\ handled => KillSignal(sig) = SIGTERM
        /\ IF o = 0
           THEN /\ pres' = UnknownPid("kill", pid)
                /\ procs' = procs
           ELSE /\ procs' = [x \in Objs |->
                               IF x \in Group(q) /\ procs[x].os = "running"
                                  /\ ~procs[x].dying
                                  /\ Fatal(KillSignal(sig), handled)
                               THEN [procs[x] EXCEPT !.dying = TRUE,
                                                     !.termed = /\ sig = 0
                                                                /\ x = o
                                                                /\ waiter.pid # pid]
                               ELSE procs[x]]
                /\ LET r == [NoResp EXCEPT
                               !.op = "kill", !.pid = pid, !.obj = o,
                               !.sent = <<-q, KillSignal(sig)>>,
                               !.Killed = (Group(q) # {}),
                               !.Error = IF Group(q) # {} THEN ""
                                         ELSE "no such process"]
                   IN  IF Group(q) # {}
                       THEN \E e \in AuditOutcomes : pres' = Audited(r, e)
                       ELSE pres' = r
        /\ UNCHANGED <<wvars, mvars, xvars, processes, waiter>>

\* func List, lines 328-347.
List ==
    /\ pres = NoResp
    /\ \E e \in AuditOutcomes :
          pres' = Audited([NoResp EXCEPT
                              !.op = "list",
                              !.Processes = {q \in Pids : processes[q] # 0}],
                          e)
    /\ UNCHANGED <<wvars, mvars, xvars, processes, procs, waiter>>

\* The registry at the start of the server: the map is empty.
ProcInit ==
    /\ lw = [buf |-> <<>>, limit |-> 0, truncated |-> FALSE]
    /\ written = <<>>
    /\ lastN = 0
    /\ ExecIdle
    /\ ProcIdle
    /\ MwIdle

\* The caller has read what its call returned. Every other step waits for
\* this one, which changes nothing else: that only fixes an order between
\* steps that do not depend on each other.
Returned ==
    /\ pres # NoResp
    /\ pres' = NoResp
    /\ UNCHANGED <<wvars, mvars, xvars, processes, procs, waiter>>

ProcNext ==
    \/ \E req \in SpawnRequests : SpawnFail(req)
    \/ \E req \in SpawnRequests, o \in Objs, q \in Pids : SpawnTTY(req, o, q)
    \/ \E req \in SpawnRequests, o \in Objs, q \in Pids : SpawnStart(req, o, q)
    \/ \E o \in Objs : SpawnRegister(o)
    \/ \E o \in Objs, s \in Streams : ProcWrites(o, s)
    \/ \E o \in Objs, k \in ProcExitCodes : ProcExits(o, k)
    \/ \E o \in Objs : ProcDies(o)
    \/ \E o \in Objs, s \in Streams : CopyOut(o, s)
    \/ \E o \in Objs : Reap(o)
    \/ \E o \in Objs : ReaperDone(o)
    \/ \E pid \in Pids, n \in StdinSizes : Stdin(pid, n)
    \/ \E pid \in Pids : WaitLookup(pid)
    \/ WaitTimeout
    \/ WaitDone
    \/ \E pid \in Pids, sig \in Signals, h \in BOOLEAN : Kill(pid, sig, h)
    \/ List
    \/ Returned

ProcSpec == ProcInit /\ [][ProcNext]_vars


(***************************************************************************)
(* Admission control (internal/obs): init and the rate limiters            *)
(***************************************************************************)
\* The value of a decimal digit, -1 for any other character.
DigitValue(ch) ==
    CASE ch = "0" -> 0 [] ch = "1" -> 1 [] ch = "2" -> 2 [] ch = "3" -> 3
      [] ch = "4" -> 4 [] ch = "5" -> 5 [] ch = "6" -> 6 [] ch = "7" -> 7
      [] ch = "8" -> 8 [] ch = "9" -> 9 [] OTHER -> -1

\* The number a sequence of digits writes, -1 when it is empty or holds
\* another character.
RECURSIVE Digits(_)
Digits(s) ==
    IF s = <<>> THEN -1
    ELSE LET d == DigitValue(s[Len(s)])
             r == Digits(SubSeq(s, 1, Len(s) - 1))
         IN  IF d < 0 THEN -1
             ELSE IF Len(s) = 1 THEN d
             ELSE IF r < 0 THEN -1
             ELSE 10 * r + d

\* strconv.Atoi: an optional sign, then digits.
Atoi(s) ==
    LET signed == s # <<>> /\ s[1] \in {"+", "-"}
        d == Digits(IF signed THEN Tail(s) ELSE s)
    IN  IF d < 0 THEN [err |-> TRUE, n |-> 0]
        ELSE [err |-> FALSE, n |-> IF signed /\ s[1] = "-" THEN -d ELSE d]

\* strconv.ParseFloat of what the model's environment holds: an optional
\* sign, digits, and at most one digit after a point; f is the number in
\* tenths.
ParseFloat(s) ==
    LET signed == s # <<>> /\ s[1] \in {"+", "-"}
        u == IF signed THEN Tail(s) ELSE s
        pointed == Len(u) >= 2 /\ u[Len(u) - 1] = "."
        i == Digits(IF pointed THEN SubSeq(u, 1, Len(u) - 2) ELSE u)
        f == IF pointed THEN DigitValue(u[Len(u)]) ELSE 0
    IN  IF i < 0 \/ f < 0 THEN [err |-> TRUE, f |-> 0]
        ELSE [err |-> FALSE,
              f |-> IF signed /\ s[1] = "-" THEN -(10 * i + f) ELSE 10 * i + f]

\* init, lines 62-66, 69-73 and 74-78: a value of the environment replaces
\* the declared one when it parses and is positive.
EnvInt(v, declared) ==
    IF v # <<>> /\ ~Atoi(v).err /\ Atoi(v).n > 0 THEN Atoi(v).n ELSE declared
EnvFloat(v, declared) ==
    IF v # <<>> /\ ~ParseFloat(v).err /\ ParseFloat(v).f > 0
    THEN ParseFloat(v).f ELSE declared

\* int(rps), the burst of getLimiter, line 94: rps is in tenths.
IntOf(rps) == rps \div 10

\* rate.NewLimiter(rate.Limit(rps), int(rps)) at time t: a full bucket.
NewLimiter(rps, t) ==
    [limit |-> rps, burst |-> IntOf(rps), tokens |-> IntOf(rps) * TokenUnit,
     last |-> t, lastEvent |-> t]

\* getLimiter, line 84: rateLimiters.Load(tool), 0 when the map holds no
\* limiter for the tool.
Load(tool) == rateLimiters[tool]

\* getLimiter, lines 87-94, after a Load that found nothing: a limiter made
\* at time t with the rate v that RATE_LIMIT_<TOOL> holds, else with
\* defaultRPS.
getLimiter(v, t) == NewLimiter(EnvFloat(v, defaultRPS), t)


\* Limiter.advance: the tokens of lim at time t.
Advance(lim, t) ==
    LET n == lim.tokens + (t - lim.last) * lim.limit
    IN  IF n > lim.burst * TokenUnit THEN lim.burst * TokenUnit ELSE n

\* Limiter.durationFromTokens: the ms until units tokens have arrived,
\* rounded up.
DurationFromTokens(lim, units) == (units + lim.limit - 1) \div lim.limit

\* Limiter.reserveN for one token at time t, waiting at most maxWait ms
\* (-1: any time): the reservation and the limiter after it.
ReserveN(lim, t, maxWait) ==
    LET tokens == Advance(lim, t) - TokenUnit
        wait == IF tokens < 0 THEN DurationFromTokens(lim, -tokens) ELSE 0
        ok == 1 <= lim.burst /\ (maxWait < 0 \/ wait <= maxWait)
    IN  [ok |-> ok,
         timeToAct |-> t + wait,
         lim |-> IF ok THEN [lim EXCEPT !.last = t, !.tokens = tokens,
                                        !.lastEvent = t + wait]
                 ELSE lim]

\* Reservation.CancelAt for a reservation of one token due at timeToAct,
\* cancelled at time t: the token goes back unless reservations made after
\* it have used it.
CancelAt(lim, timeToAct, t) ==
    LET restore == TokenUnit - (lim.lastEvent - timeToAct) * lim.limit
        n == Advance(lim, t) + restore
        prevEvent == timeToAct - DurationFromTokens(lim, TokenUnit)
    IN  IF timeToAct < t \/ restore <= 0 THEN lim
        ELSE [lim EXCEPT
                 !.last = t,
                 !.tokens = IF n > lim.burst * TokenUnit
                            THEN lim.burst * TokenUnit ELSE n,
                 !.lastEvent = IF timeToAct = lim.lastEvent /\ prevEvent >= t
                               THEN prevEvent ELSE @]

(***************************************************************************)
(* Admission control (internal/obs): Middleware                            *)
(***************************************************************************)
\* What the environment holds in MAX_CONCURRENCY, DEFAULT_TIMEOUT_MS,
\* DEFAULT_RPS and RATE_LIMIT_<TOOL>: <<>> is an unset variable.
ConcurrencyEnv == {<<>>, <<"1">>, <<"0">>, <<"-", "1">>, <<"x">>}
TimeoutEnv == {<<>>, <<"1", "0", "0", "0">>, <<"0">>}
RPSEnv == {<<>>, <<"0">>, <<"x">>}
RateLimitEnv == {<<>>, <<"1">>, <<"0", ".", "5">>}

\* The deadlines a caller's context carries, from the time of the call (0:
\* none), and the steps of time.
CallerTimeouts == {0, 1000}
TickSizes == {1000}

\* The next call made is call c.
IsNextCall(c) ==
    /\ mw[c].pc = "idle"
    /\ \A c2 \in CallIds : c2 < c => mw[c2].pc # "idle"

\* The call has returned: its goroutine and what it held are gone; the
\* history of the call stays.
Ended(call) ==
    [call EXCEPT !.pc = "done", !.deadline = 0, !.ctxErr = "",
                 !.timeToAct = 0, !.acquiredAt = 0, !.ctx2Deadline = 0,
                 !.ctx2Err = "", !.acted = FALSE]

\* A call returns err from the step at.
Fails(call, at, err) == [Ended(call) EXCEPT !.at = at, !.err = err]

\* Mutant: the select on sem has no case for the context.
CtxDoneCaseMissing(call) == FALSE

\* Lines 112-117: the case <-ctx.Done() of the select can proceed.
CtxDoneCase(call) == call.ctxErr # ""

\* Mutant: the send on sem can always proceed.
SemSendCaseAlways == TRUE

\* Lines 112-113: the case sem <- struct{}{} of the select can proceed,
\* the channel has room.
SemSendCase == sem < maxConcurrency

\* Mutant: the timeout starts a deadline of its own, whatever the deadline
\* of the parent.
WithTimeoutAlone(deadline, t, d) == t + d

\* The deadline of context.WithTimeout(ctx, d) made at time t on a context
\* of the deadline given (0: none): the earlier of the two.
WithTimeout(deadline, t, d) ==
    IF deadline # 0 /\ deadline < t + d THEN deadline ELSE t + d

\* Lines 113-126: the call has its slot; ctx2 is made, which is done at
\* once when ctx is, and next is called.
Acquired(call) ==
    [call EXCEPT !.pc = "running",
                 !.acquiredAt = clock.now,
                 !.ctx2Deadline = WithTimeout(call.deadline, clock.now,
                                              defaultTimeout),
                 !.ctx2Err = call.ctxErr,
                 !.invoked = TRUE]

\* A counter vector after Inc on the counter of the tool.
Inc(counter, tool) == [counter EXCEPT ![tool] = @ + 1]

\* Mutant: a call that is turned away is not counted.
CountErrorDropped(tool) == errors

\* Lines 107 and 115: errors.WithLabelValues(tool).Inc().
CountError(tool) == Inc(errors, tool)

\* Line 106, lim.Wait(ctx) at time t for the call on the limiter lim: the
\* call and the limiter after it. Wait refuses a limiter of burst 0, then
\* a context that is done, then a wait that would pass the deadline; else
\* it reserves a token and returns at once or waits for its time.
Wait(call, lim, t) ==
    LET passed == call.deadline # 0 /\ call.deadline < t
        r == ReserveN(lim, t, IF call.deadline = 0 THEN -1
                              ELSE call.deadline - t)
    IN  IF 1 > lim.burst
        THEN [call |-> Fails(call, "rate",
                             "rate: Wait(n=1) exceeds limiter's burst"),
              lim |-> lim]
        ELSE IF call.ctxErr # ""
        THEN [call |-> Fails(call, "rate", call.ctxErr), lim |-> lim]
        ELSE IF passed \/ ~r.ok
        THEN [call |-> Fails(call, "rate",
                             "rate: Wait(n=1) would exceed context deadline"),
              lim |-> lim]
        ELSE [call |-> [call EXCEPT !.timeToAct = r.timeToAct,
                                    !.pc = IF r.timeToAct = t
                                           THEN "select" ELSE "limwait"],
              lim |-> r.lim]

\* Lines 101-109: a call of the tool enters, with a context of timeout dl
\* (0: no deadline). getLimiter loads the limiter of the tool: when the map
\* holds one the call waits on it; when it holds none the call goes on to
\* make one.
Call(c, tool, dl) ==
    LET call == [NoCall EXCEPT
                    !.tool = tool,
                    !.deadline = IF dl = 0 THEN 0 ELSE clock.now + dl]
        id == Load(tool)
        w == Wait([call EXCEPT !.lim = id], limiters[id], clock.now)
    IN  /\ IsNextCall(c)
        /\ IF id = 0
           THEN /\ mw' = [mw EXCEPT ![c] = [call EXCEPT !.pc = "getlim"]]
                /\ UNCHANGED <<limiters, errors>>
           ELSE /\ mw' = [mw EXCEPT ![c] = w.call]
                /\ limiters' = [limiters EXCEPT ![id] = w.lim]
                /\ errors' = IF w.call.pc = "done" THEN CountError(tool)
                             ELSE errors
        /\ UNCHANGED <<wvars, xvars, pvars, maxConcurrency, defaultRPS,
                       defaultTimeout, sem, rateLimiters, clock, environ,
                       calls, timeouts, durations>>

\* getLimiter, lines 87-96, then line 106: the call whose Load found
\* nothing reads v from RATE_LIMIT_<TOOL>, which holds what an earlier
\* Getenv found there, makes a limiter and stores it under the tool, over
\* whatever the map holds by now, and waits on the one it made.
getLimiterStore(c, v) ==
    /\ mw[c].pc = "getlim"
    /\ environ[mw[c].tool] \in {Unread, v}
    /\ \E lim \in {getLimiter(v, clock.now)} :
       \E w \in {Wait([mw[c] EXCEPT !.lim = c], lim, clock.now)} :
          /\ environ' = [environ EXCEPT ![mw[c].tool] = v]
          /\ rateLimiters' = [rateLimiters EXCEPT ![mw[c].tool] = c]
          /\ mw' = [mw EXCEPT ![c] = w.call]
          /\ limiters' = [limiters EXCEPT ![c] = w.lim]
          /\ errors' = IF w.call.pc = "done" THEN CountError(mw[c].tool)
                       ELSE errors
    /\ UNCHANGED <<wvars, xvars, pvars, maxConcurrency, defaultRPS,
                   defaultTimeout, sem, clock, calls, timeouts, durations>>

\* lim.Wait: the timer of the reservation fires, Wait returns nil.
LimiterTimer(c) ==
    /\ mw[c].pc = "limwait"
    /\ clock.now >= mw[c].timeToAct
    /\ mw' = [mw EXCEPT ![c].pc = "select"]
    /\ UNCHANGED <<wvars, xvars, pvars, maxConcurrency, defaultRPS,
                   defaultTimeout, sem, rateLimiters, clock, environ,
                   limiters, metrics>>

\* The caller's context is done: the caller cancels it, or its deadline has
\* come. A call waiting in lim.Wait cancels its reservation and returns
\* the error; a call blocked in the select on sem is woken by this case
\* and returns the error; ctx2 of a call that runs is done with ctx.
CtxEnds(c, e) ==
    LET call == [mw[c] EXCEPT !.ctxErr = e]
        m == [mw EXCEPT ![c] =
                CASE mw[c].pc = "limwait" -> Fails(call, "rate", e)
                  [] mw[c].pc \in {"getlim", "select"} -> call
                  [] mw[c].pc = "semwait" ->
                        IF CtxDoneCase(call)
                        THEN Fails([call EXCEPT !.waitedSem = TRUE], "sem", e)
                        ELSE [call EXCEPT !.waitedSem = TRUE]
                  [] mw[c].pc = "running" ->
                        [call EXCEPT !.ctx2Err = IF @ = "" THEN e ELSE @]]
    IN  /\ mw[c].pc \in {"getlim", "limwait", "select", "semwait", "running"}
        /\ mw[c].ctxErr = ""
        /\ e = "context deadline exceeded" =>
              mw[c].deadline # 0 /\ clock.now >= mw[c].deadline
        /\ mw' = m
        /\ limiters' =
              IF mw[c].pc = "limwait"
              THEN [limiters EXCEPT ![mw[c].lim] =
                            CancelAt(@, mw[c].timeToAct, clock.now)]
              ELSE limiters
        /\ errors' = IF m[c].pc = "done" THEN CountError(mw[c].tool)
                     ELSE errors
        /\ UNCHANGED <<wvars, xvars, pvars, maxConcurrency, defaultRPS,
                       defaultTimeout, sem, rateLimiters, clock, environ,
                       calls, timeouts, durations>>

\* Lines 112-117: the select. When both cases can proceed Go takes one of
\* them, pick; when none can the goroutine blocks on both. Line 124 counts
\* the call that has its slot.
SelectSem(c, pick) ==
    /\ mw[c].pc = "select"
    /\ IF SemSendCase /\ (~CtxDoneCase(mw[c]) \/ pick = "sem")
       THEN /\ mw' = [mw EXCEPT ![c] = Acquired(mw[c])]
            /\ sem' = sem + 1
            /\ calls' = Inc(calls, mw[c].tool)
            /\ errors' = errors
       ELSE IF CtxDoneCase(mw[c])
       THEN /\ mw' = [mw EXCEPT ![c] = Fails(mw[c], "sem", mw[c].ctxErr)]
            /\ sem' = sem
            /\ calls' = calls
            /\ errors' = CountError(mw[c].tool)
       ELSE /\ mw' = [mw EXCEPT ![c].pc = "semwait"]
            /\ UNCHANGED <<sem, calls, errors>>
    /\ UNCHANGED <<wvars, xvars, pvars, maxConcurrency, defaultRPS,
                   defaultTimeout, rateLimiters, clock, environ, limiters,
                   timeouts, durations>>

\* The timer of ctx2 fires: ctx2 has one when its deadline is not the one
\* of ctx.
Ctx2Ends(c) ==
    /\ mw[c].pc = "running"
    /\ mw[c].ctx2Err = ""
    /\ mw[c].ctx2Deadline # mw[c].deadline \/ mw[c].deadline = 0
    /\ clock.now >= mw[c].ctx2Deadline
    /\ mw' = [mw EXCEPT ![c].ctx2Err = "context deadline exceeded"]
    /\ UNCHANGED <<wvars, xvars, pvars, maxConcurrency, defaultRPS,
                   defaultTimeout, sem, rateLimiters, clock, environ,
                   limiters, metrics>>

\* The child of the process the handler works on does what the handler
\* waits for: it completes (proc.Wait, proc.go line 279) or reads what
\* p.stdin.Write writes (proc.Stdin, proc.go line 251).
ChildActs(c) ==
    /\ mw[c].pc = "running"
    /\ ~mw[c].acted
    /\ mw' = [mw EXCEPT ![c].acted = TRUE]
    /\ UNCHANGED <<wvars, xvars, pvars, maxConcurrency, defaultRPS,
                   defaultTimeout, sem, rateLimiters, clock, environ,
                   limiters, metrics>>

\* The handler watches the context it is given: proc.Wait selects on
\* ctx.Done (proc.go line 280), proc.Stdin never reads its ctx.
WatchesCtx(tool) == tool = "proc.wait"

\* next can return: what it waits for has come, or its context is done and
\* it watches it.
HandlerCanReturn(call) ==
    call.acted \/ (WatchesCtx(call.tool) /\ call.ctx2Err # "")

\* The structured content of a tool result: none, a response that carries
\* an exit code and an error (ExecResponse, proc.WaitResponse), or one that
\* carries an error only (proc.StdinResponse and the like).
Contents ==
    {[kind |-> "nil", ExitCode |-> 0, Error |-> ""]}
    \cup {[kind |-> "exec", ExitCode |-> k, Error |-> ""] : k \in {0, 1}}
    \cup {[kind |-> "exec", ExitCode |-> TimeoutExit, Error |-> "timeout"]}
    \cup {[kind |-> "plain", ExitCode |-> 0, Error |-> "unknown pid"]}

\* What next returns: an error and no result, or a result and no error.
HandlerResults ==
    {[err |-> "handler failed", content |-> x] :
        x \in {y \in Contents : y.kind = "nil"}}
    \cup {[err |-> "", content |-> x] : x \in Contents}

\* Line 139, json.Marshal of the content: the members of the object. The
\* tag of Error says omitempty, so an empty error is left out, and only a
\* response with an exit code has the member exit_code.
Marshal(x) ==
    [keys |-> (IF x.kind = "exec" THEN {"exit_code"} ELSE {})
              \cup (IF x.Error # "" THEN {"error"} ELSE {}),
     exit_code |-> x.ExitCode,
     error |-> x.Error]

\* Lines 140-144, json.Unmarshal into out: a member that is absent leaves
\* its field at the zero value.
Unmarshal(data) ==
    [ExitCode |-> IF "exit_code" \in data.keys THEN data.exit_code ELSE 0,
     Error |-> IF "error" \in data.keys THEN data.error ELSE ""]

\* Mutant: the content of a result that came without error is not looked
\* at.
ClassifyErrOnly(res, ctx2Err) ==
    IF res.err # ""
    THEN IF ctx2Err = "context deadline exceeded"
         THEN [errors |-> 0, timeouts |-> 1]
         ELSE [errors |-> 1, timeouts |-> 0]
    ELSE [errors |-> 0, timeouts |-> 0]

\* Lines 129-152: what the return of next adds to the counters errors and
\* timeouts, ctx2Err being ctx2.Err() at line 130.
Classify(res, ctx2Err) ==
    LET out == Unmarshal(Marshal(res.content))
    IN  IF res.err # ""
        THEN IF ctx2Err = "context deadline exceeded"
             THEN [errors |-> 0, timeouts |-> 1]
             ELSE [errors |-> 1, timeouts |-> 0]
        ELSE IF res.content.kind # "nil"
                /\ (out.Error # "" \/ out.ExitCode # 0)
        THEN [errors |-> 1,
              timeouts |-> IF out.ExitCode = TimeoutExit THEN 1 ELSE 0]
        ELSE [errors |-> 0, timeouts |-> 0]

\* Mutant: the deferred receive is missing.
SemReceiveNone(n) == n

\* Line 118, <-sem: the channel has one element less.
SemReceive(n) == n - 1

\* Lines 118 and 126-155: next returns res, the sample of its duration is
\* observed, the result is classified, and the deferred <-sem runs. The
\* receive lets the send of a call w blocked in the select on sem proceed,
\* and w goes on; with no such call (w = 0) the channel has one element
\* less.
HandlerReturns(c, w, res) ==
    LET blocked == {x \in CallIds : mw[x].pc = "semwait"}
        tool == mw[c].tool
        add == Classify(res, mw[c].ctx2Err)
    IN  /\ mw[c].pc = "running"
        /\ HandlerCanReturn(mw[c])
        /\ durations' = Inc(durations, tool)
        /\ errors' = [errors EXCEPT ![tool] = @ + add.errors]
        /\ timeouts' = [timeouts EXCEPT ![tool] = @ + add.timeouts]
        /\ IF blocked = {}
           THEN /\ w = 0
                /\ sem' = SemReceive(sem)
                /\ mw' = [mw EXCEPT ![c] = Ended(mw[c])]
                /\ calls' = calls
           ELSE /\ w \in blocked
                /\ sem' = SemReceive(sem) + 1
                /\ mw' = [mw EXCEPT ![c] = Ended(mw[c]),
                                    ![w] = Acquired(mw[w])]
                /\ calls' = Inc(calls, mw[w].tool)
        /\ UNCHANGED <<wvars, xvars, pvars, maxConcurrency, defaultRPS,
                       defaultTimeout, rateLimiters, clock, environ,
                       limiters>>

\* d ms pass.
Tick(d) ==
    /\ clock.ticks < MaxTicks
    /\ clock' = [now |-> clock.now + d, ticks |-> clock.ticks + 1]
    /\ UNCHANGED <<wvars, xvars, pvars, maxConcurrency, defaultRPS,
                   defaultTimeout, sem, rateLimiters, mw, environ, limiters,
                   metrics>>

\* The package after init, lines 61-81, in an environment that holds vc in
\* MAX_CONCURRENCY, vr in DEFAULT_RPS and vt in DEFAULT_TIMEOUT_MS.
MwInit ==
    /\ lw = [buf |-> <<>>, limit |-> 0, truncated |-> FALSE]
    /\ written = <<>>
    /\ lastN = 0
    /\ ExecIdle
    /\ ProcIdle
    /\ \E vc \in ConcurrencyEnv, vr \in RPSEnv, vt \in TimeoutEnv :
          /\ maxConcurrency = EnvInt(vc, InitialMaxConcurrency)
          /\ defaultRPS = EnvFloat(vr, InitialRPS)
          /\ defaultTimeout = EnvInt(vt, InitialTimeout)
    /\ environ = [t \in Tools |-> Unread]
    /\ sem = 0
    /\ rateLimiters = [t \in Tools |-> 0]
    /\ limiters = [c \in CallIds |-> NoLimiter]
    /\ mw = [c \in CallIds |-> NoCall]
    /\ clock = [now |-> 0, ticks |-> 0]
    /\ calls = [t \in Tools |-> 0]
    /\ errors = [t \in Tools |-> 0]
    /\ timeouts = [t \in Tools |-> 0]
    /\ durations = [t \in Tools |-> 0]

MwNext ==
    \/ \E c \in CallIds, tool \in Tools, dl \in CallerTimeouts :
          Call(c, tool, dl)
    \/ \E c \in CallIds, v \in RateLimitEnv : getLimiterStore(c, v)
    \/ \E c \in CallIds : LimiterTimer(c)
    \/ \E c \in CallIds,
          e \in {"context canceled", "context deadline exceeded"} :
          CtxEnds(c, e)
    \/ \E c \in CallIds, pick \in {"sem", "ctx"} : SelectSem(c, pick)
    \/ \E c \in CallIds : Ctx2Ends(c)
    \/ \E c \in CallIds : ChildActs(c)
    \/ \E c \in CallIds, w \in CallIds \cup {0}, res \in HandlerResults :
          HandlerReturns(c, w, res)
    \/ \E d \in TickSizes : Tick(d)

MwSpec == MwInit /\ [][MwNext]_vars

\* What the Go scheduler and the runtime's timers give: a goroutine that
\* can run does, a timer that is due fires. Nothing is assumed of callers,
\* of the children of tracked processes, or of time going on.
MwFairness ==
    /\ \A c \in CallIds : WF_vars(\E v \in RateLimitEnv : getLimiterStore(c, v))
    /\ \A c \in CallIds : WF_vars(LimiterTimer(c))
    /\ \A c \in CallIds : WF_vars(\E pick \in {"sem", "ctx"} : SelectSem(c, pick))
    /\ \A c \in CallIds : WF_vars(Ctx2Ends(c))
    /\ \A c \in CallIds : WF_vars(CtxEnds(c, "context deadline exceeded"))
    /\ \A c \in CallIds :
          WF_vars(\E w \in CallIds \cup {0}, res \in HandlerResults :
                     HandlerReturns(c, w, res))

MwFairSpec == MwSpec /\ MwFairness

(***************************************************************************)
(* Properties                                                              *)
(***************************************************************************)

Min(a, b) == IF a <= b THEN a ELSE b

\* C1 (WriterSpec): with a limit N > 0, after any sequence of writes the
\* buffer holds at most N bytes and is exactly the first min(total, N)
\* bytes of the concatenation of everything written.
C1_BufferIsCappedPrefix ==
    lw.limit > 0 =>
        /\ Len(lw.buf) <= lw.limit
        /\ lw.buf = SubSeq(written, 1, Min(Len(written), lw.limit))

\* More than N bytes were written and the buffer stopped at N.
C1_Witness ==
    /\ lw.limit > 0
    /\ Len(written) > lw.limit
    /\ Len(lw.buf) = lw.limit

RequestedCap == IF in.MaxBytes > 0 THEN in.MaxBytes ELSE DefaultMaxIO

\* Run returned from one of the paths that follow cmd.Run: normal exit,
\* non-zero exit, timeout, launch failure and the like.
ReturnedFromRun == pc = "done" /\ path \in {"ok", "exiterror", "timeout", "other"}

\* C3 as stated: on every return path that follows cmd.Run, stdout and
\* stderr of the result are each at most N bytes long (1 MiB when max_bytes
\* is not positive).
C3_Original ==
    ReturnedFromRun =>
        /\ resp.Stdout <= RequestedCap
        /\ resp.Stderr <= RequestedCap

\* C3 amended: stdout is at most N bytes long on each of these paths, and
\* so is stderr, except that a result with exit code 124 and no captured
\* stderr carries the 9 bytes "timed out" whatever N is.
C3_OutputWithinCap ==
    ReturnedFromRun =>
        /\ resp.Stdout <= RequestedCap
        /\ \/ resp.Stderr <= RequestedCap
           \/ /\ resp.ExitCode = TimeoutExit
              /\ stderrW.len = 0
              /\ resp.Stderr = TimedOutLen

\* A timed-out call with a small cap: stdout was cut at N, stderr is the
\* substituted text.
C3_Witness ==
    /\ pc = "done"
    /\ path = "timeout"
    /\ in.MaxBytes > 0
    /\ resp.StdoutTruncated
    /\ resp.Stdout = in.MaxBytes
    /\ resp.Stderr = TimedOutLen

\* C4: an empty command returns exit code 127 with a non-empty error and
\* spawns no process, whatever the other fields and the policy are.
C4_EmptyCommand ==
    in.Cmd = <<>> =>
        /\ spawned = 0
        /\ child = "none"
        /\ pc = "done" => (resp.ExitCode = CmdRequiredExit /\ resp.Error # "")

\* An empty command with dry_run set, under a non-empty policy, returned.
C4_Witness ==
    /\ pc = "done"
    /\ in.Cmd = <<>>
    /\ in.DryRun
    /\ allowPatterns # {}
    /\ denyPatterns # {}
    /\ resp.ExitCode = CmdRequiredExit

\* The policy rejects the command: an allow list exists and no pattern of
\* it matches, or a deny pattern matches.
Rejected ==
    \/ allowPatterns # {} /\ \A re \in allowPatterns : in.Cmd \notin re
    \/ \E re \in denyPatterns : in.Cmd \in re

\* C5: a non-empty command that the policy rejects returns exit code 126
\* with a non-empty error and spawns no process, also when dry_run is set.
C5_PolicyRejection ==
    (in.Cmd # <<>> /\ Rejected) =>
        /\ spawned = 0
        /\ child = "none"
        /\ pc = "done" => (resp.ExitCode = BlockedExit /\ resp.Error # "")

\* A rejected command with dry_run set returned 126.
C5_Witness ==
    /\ pc = "done"
    /\ in.Cmd # <<>>
    /\ Rejected
    /\ in.DryRun
    /\ resp.ExitCode = BlockedExit

\* C6 as stated: dry_run=true never spawns a process and always returns
\* exit code 0.
C6_Original ==
    in.DryRun =>
        /\ spawned = 0
        /\ pc = "done" => resp.ExitCode = 0

\* C6 amended: dry_run=true never spawns a process; it returns exit code 0
\* when the command is non-empty and passes the policy, 127 when the
\* command is empty and 126 when the policy rejects it.
C6_DryRun ==
    in.DryRun =>
        /\ spawned = 0
        /\ child = "none"
        /\ pc = "done" =>
             resp.ExitCode = IF in.Cmd = <<>> THEN CmdRequiredExit
                             ELSE IF Rejected THEN BlockedExit
                             ELSE 0

\* A dry run of an accepted command returned 0 with the synthesized text.
C6_Witness ==
    /\ pc = "done"
    /\ in.DryRun
    /\ path = "dry_run"
    /\ resp.ExitCode = 0
    /\ resp.Stdout = DryRunPrefixLen + Len(in.Cmd)
    /\ spawned = 0

\* The deadline of the request: timeout_ms, or 60 s.
RequestedDeadline == IF in.TimeoutMs > 0 THEN in.TimeoutMs ELSE DefaultTimeout

GroupKilled == <<"pgid", "SIGKILL">> \in signals

\* C7 as stated: a call whose command is still running when its deadline
\* expires sends SIGKILL to the process group and returns exit code 124.
C7_Original ==
    (pc = "done" /\ expiredRunning) =>
        (resp.ExitCode = TimeoutExit /\ GroupKilled)

\* C7 amended: the deadline expires no earlier than timeout_ms (60 s when
\* not positive) after the context was created; a call whose command is
\* still running at that moment sends SIGKILL to the process group and
\* returns 124, unless the command then exits with status 0 by itself and
\* is reaped before the context watcher signals it: that call returns 0
\* and sends no signal.
C7_TimeoutKillsGroup ==
    expiredRunning =>
        /\ elapsed >= RequestedDeadline
        /\ pc = "done" =>
             \/ resp.ExitCode = TimeoutExit /\ GroupKilled
             \/ /\ childStatus = 0
                /\ resp.ExitCode = 0
                /\ signals = {}

\* The deadline expired on a running child, the watcher killed it, and Run
\* returned 124 after the group kill.
C7_Witness ==
    /\ pc = "done"
    /\ expiredRunning
    /\ childStatus = SignalledExit
    /\ resp.ExitCode = TimeoutExit
    /\ signals = {<<"pid", "SIGKILL">>, <<"pgid", "SIGKILL">>}

\* C8 (FairSpec): once the deadline has expired the call eventually
\* returns, whatever the descendants of the command do.
C8_ReturnsAfterDeadline ==
    (ctxErr = "DeadlineExceeded") ~> (pc = "done")

\* C9: when Run returns from the timeout path, no process of the command's
\* process group is alive.
C9_GroupDeadOnReturn ==
    (pc = "done" /\ path = "timeout") =>
        /\ child \notin {"running"}
        /\ desc.state # "alive"

\* C10, in the interleavings where the command had ended by itself with a
\* non-zero code k before the context was done: Run reports exactly k.
C10_RealExitCode ==
    (pc = "done" /\ exitedFirst /\ childStatus # 0) =>
        resp.ExitCode = childStatus


\* C11: when the child cannot be launched, Run returns exit code 1 and the
\* result carries the error text of the operating system in its error.
C11_LaunchFailure ==
    (pc = "done" /\ runErr = "StartError") =>
        (resp.ExitCode = LaunchFailExit /\ resp.Error # "")

\* What a caller sees of a result: the exit code, and whether error is set.
ResultPair == <<resp.ExitCode, resp.Error # "">>

\* The command ran and the deadline came before it had ended by itself.
RanAndTimedOut ==
    /\ spawned = 1
    /\ ctxErr = "DeadlineExceeded"
    /\ ~exitedFirst

\* C12, for the pair of a timed-out call: a call that ran until its
\* deadline returns (124, no error), as in C7_Witness, so telling the
\* outcomes apart requires every call that returns (124, no error) to be a
\* call that ran and timed out. Stated for the calls whose context never
\* expired nor was cancelled.
C12_TimeoutPairMeansTimeout ==
    (pc = "done" /\ ctxErr = "nil" /\ ResultPair = <<TimeoutExit, FALSE>>) =>
        RanAndTimedOut


C15_OnlyItsWaitRemoves ==
    [][\A q \in Pids :
          (processes[q] # 0 /\ processes'[q] # processes[q]) =>
              /\ waiter.pc = "select"
              /\ waiter.obj = processes[q]
              /\ procs[waiter.obj].done
              /\ waiter'.pc = "idle"
              /\ processes'[q] = 0]_vars


\* The last call was a Wait that ended by its timeout or by cancellation.
WaitTimedOut == pres.op = "wait" /\ pres.Error = "timeout"

\* The last call was a Wait that observed the completion of a process.
WaitCompleted == pres.op = "wait" /\ pres.Error = ""

\* C16: a Wait that ends by its timeout or by cancellation changes neither
\* the registry nor any process or child (it sends no signal), and returns
\* 124, "timeout" and what the buffers hold; and when a Wait has timed out
\* on a process, a later Wait on its pid that observes completion is about
\* that process: it returns its exit code and removes its entry.
C16_TimedOutWaitThenLaterWait ==
    /\ [][WaitTimeout => UNCHANGED <<processes, procs>>]_vars
    /\ [](WaitTimedOut =>
            /\ pres.ExitCode = WaitTimeoutExit
            /\ pres.sent = <<>>
            /\ pres.Stdout = procs[pres.obj].out.stdout.len
            /\ pres.Stderr = procs[pres.obj].out.stderr.len)
    /\ []((WaitCompleted /\ waiter.timedOut # 0
            /\ pres.pid = procs[waiter.timedOut].pid) =>
               pres.obj = waiter.timedOut)
    /\ [](WaitCompleted =>
            /\ pres.ExitCode = procs[pres.obj].status
            /\ processes[pres.pid] = 0)

\* C17: when Wait observes completion, the stdout and the stderr it returns
\* hold every byte the child wrote to that stream, up to the cap.
C17_AllOutputReturned ==
    WaitCompleted =>
        /\ pres.Stdout = Min(DefaultMaxIO, procs[pres.obj].wrote.stdout)
        /\ pres.Stderr = Min(DefaultMaxIO, procs[pres.obj].wrote.stderr)

\* C18: when Kill with the default signal has reached a running tracked
\* process that does not handle SIGTERM, the Wait on that pid that follows
\* and observes completion returns a non-zero exit code and no error, and
\* the pid is then absent from the registry.
C18_KillThenWait ==
    (WaitCompleted /\ \E o \in Objs : procs[o].termed /\ procs[o].pid = pres.pid) =>
        /\ pres.ExitCode # 0
        /\ processes[pres.pid] = 0


\* C19: a Kill on a pid that has an entry passes the signal of the request,
\* SIGTERM when that is 0, and the negative pid to syscall.Kill, and leaves
\* the registry, every exit code and every done channel as they are.
C19_KillSendsAndKeeps ==
    [][\A pid \in Pids, sig \in Signals, h \in BOOLEAN :
          (Kill(pid, sig, h) /\ Lookup(pid) # 0) =>
              /\ pres'.sent = <<-pid, IF sig = 0 THEN SIGTERM ELSE sig>>
              /\ processes' = processes
              /\ \A o \in Objs : /\ procs'[o].exitCode = procs[o].exitCode
                                 /\ procs'[o].done = procs[o].done]_vars

\* A Kill with the default signal has just reached the running child of a
\* tracked process, which is still in the registry and not completed.
C19_Witness ==
    /\ pres.op = "kill"
    /\ pres.Killed
    /\ pres.sent = <<-pres.pid, SIGTERM>>
    /\ processes[pres.pid] = pres.obj
    /\ procs[pres.obj].os = "running"
    /\ procs[pres.obj].termed
    /\ ~procs[pres.obj].done

\* C20: Stdin, Wait and Kill on a pid that has no entry return the error
\* "unknown pid", Wait with exit code 1, Kill with killed false and no
\* signal sent, Stdin with 0 bytes written, and change neither the
\* registry nor any process or child.
C20_UnknownPid ==
    [][\A pid \in Pids :
          Lookup(pid) = 0 =>
              /\ (\E n \in StdinSizes : Stdin(pid, n)) =>
                    /\ pres'.Error = "unknown pid"
                    /\ pres'.BytesWritten = 0
                    /\ UNCHANGED <<processes, procs, waiter>>
              /\ WaitLookup(pid) =>
                    /\ pres'.Error = "unknown pid"
                    /\ pres'.ExitCode = UnknownPidExit
                    /\ UNCHANGED <<processes, procs, waiter>>
              /\ (\E sig \in Signals, h \in BOOLEAN : Kill(pid, sig, h)) =>
                    /\ pres'.Error = "unknown pid"
                    /\ ~pres'.Killed
                    /\ pres'.sent = <<>>
                    /\ UNCHANGED <<processes, procs, waiter>>]_vars

\* A Wait has just been refused on a pid whose process was registered and
\* has been removed since, while its child is completed.
C20_Witness ==
    /\ pres.op = "wait"
    /\ pres.Error = "unknown pid"
    /\ processes[pres.pid] = 0
    /\ \E o \in Objs : /\ procs[o].call = "ok"
                       /\ procs[o].pid = pres.pid
                       /\ procs[o].done

\* C21: write_stdin to a tracked process whose child has exited and has
\* been reaped by the reaper, so that cmd.Wait has closed this end of its
\* stdin, returns a non-empty error, reports no byte written and is not
\* audited as a write.
C21_ClosedStdinIsError ==
    (/\ pres.op = "stdin"
     /\ pres.obj # 0
     /\ procs[pres.obj].os = "reaped") =>
        /\ pres.Error # ""
        /\ pres.BytesWritten = 0
        /\ ~pres.audited

\* A write_stdin has just returned for a registered process that the reaper
\* has completed and that no wait has removed.
C21_Witness ==
    /\ pres.op = "stdin"
    /\ pres.obj # 0
    /\ processes[pres.pid] = pres.obj
    /\ procs[pres.obj].os = "reaped"
    /\ procs[pres.obj].done
    /\ pres.Error = "file already closed"

\* The processes a Spawn has returned the pid of and whose completion no
\* Wait has returned yet: running, completed or killed.
Tracked == {o \in Objs : procs[o].call = "ok" /\ ~procs[o].waited}

\* C22: list returns exactly the pids of the processes that were spawned
\* successfully and not yet removed by a successful wait, whether they
\* run, are completed or were killed, and no other pid.
C22_ListIsRegistry ==
    pres.op = "list" => pres.Processes = {procs[o].pid : o \in Tracked}

\* The calls that have acquired a slot and whose handler has not returned.
Holders == {c \in CallIds : mw[c].pc = "running"}

\* C23: at every moment the calls that hold a concurrency slot, whatever
\* their tool names, are at most maxConcurrency, which is 4 unless
\* MAX_CONCURRENCY holds a positive integer, and the channel holds one
\* element for each of them.
C23_SlotsBounded ==
    /\ Cardinality(Holders) <= maxConcurrency
    /\ sem = Cardinality(Holders)
    /\ maxConcurrency \in {InitialMaxConcurrency, 1}

\* Every slot is taken by calls of two different tools while another call
\* is blocked waiting for one.
C23_Witness ==
    /\ Cardinality(Holders) = maxConcurrency
    /\ \E c \in CallIds : mw[c].pc = "semwait"
    /\ \E c \in Holders, x \in CallIds : mw[x].pc = "semwait"
                                         /\ mw[x].tool # mw[c].tool

\* C24: a call whose context is done (cancelled, or past its deadline)
\* while it is blocked waiting for a slot returns the error of the context
\* from the select and its handler is never invoked, whether another call
\* releases a slot before or after.
C24_CancelledWhileWaiting ==
    \A c \in CallIds :
        mw[c].waitedSem =>
            /\ ~mw[c].invoked
            /\ mw[c].pc = "done"
            /\ mw[c].at = "sem"
            /\ mw[c].err \in {"context canceled", "context deadline exceeded"}

\* A call was cancelled while it waited for the only slot, and the call
\* that held the slot has returned and released it since.
C24_Witness ==
    \E c, x \in CallIds :
        /\ mw[c].waitedSem
        /\ mw[c].err = "context canceled"
        /\ mw[x].pc = "done" /\ mw[x].invoked
        /\ maxConcurrency = 1
        /\ sem = 0

\* C25: a call fails at the rate-limit step only because of the caller's
\* context: it was cancelled, its deadline came, or the token would come
\* after its deadline; otherwise the call waits for its token and goes on.
C25_RateWaitFailsOnlyOnContext ==
    \A c \in CallIds :
        (mw[c].pc = "done" /\ mw[c].at = "rate") =>
            mw[c].err \in {"context canceled", "context deadline exceeded",
                           "rate: Wait(n=1) would exceed context deadline"}

\* C26: the context passed to the handler carries a deadline, which is no
\* later than defaultTimeout after the slot was acquired and no later than
\* the deadline of the caller's context when it has one.
C26_HandlerDeadline ==
    \A c \in CallIds :
        mw[c].pc = "running" =>
            /\ mw[c].ctx2Deadline > 0
            /\ mw[c].ctx2Deadline <= mw[c].acquiredAt + defaultTimeout
            /\ mw[c].deadline # 0 => mw[c].ctx2Deadline <= mw[c].deadline

\* A handler runs for a call that has waited for its turn and whose caller
\* gave a deadline earlier than the default timeout allows.
C26_Witness ==
    \E c \in CallIds :
        /\ mw[c].pc = "running"
        /\ mw[c].acquiredAt > 0
        /\ mw[c].deadline # 0
        /\ mw[c].deadline < mw[c].acquiredAt + defaultTimeout

\* C27: every call the middleware admitted returns and frees its slot once
\* the deadline of the context it was given has come, whatever the child
\* of the process it works on does.
C27_EveryCallReturns ==
    \A c \in CallIds :
        (mw[c].pc = "running" /\ clock.now >= mw[c].ctx2Deadline)
            ~> (mw[c].pc = "done")

\* C28: for every process the exit code is written only by its reaper, in
\* the one step that closes done; done is closed once and stays closed,
\* and the exit code never changes after; every process Spawn returned has
\* a reaper; and a wait returns a result without error only when done is
\* closed, with the exit code the reaper recorded.
C28_ReaperOnce ==
    /\ [][\A o \in Objs :
             /\ (\/ procs'[o].exitCode # procs[o].exitCode
                 \/ procs'[o].done # procs[o].done) => ReaperDone(o)
             /\ ReaperDone(o) => /\ procs[o].reaper
                                 /\ ~procs[o].done
                                 /\ procs'[o].done
             /\ procs[o].done => /\ procs'[o].done
                                 /\ procs'[o].exitCode = procs[o].exitCode]_vars
    /\ [](\A o \in Objs : procs[o].call = "ok" => procs[o].reaper)
    /\ [](\A o \in Objs : procs[o].done => procs[o].reaper)
    /\ []((pres.op = "wait" /\ pres.Error = "") =>
             /\ procs[pres.obj].done
             /\ pres.ExitCode = procs[pres.obj].exitCode)

\* A wait has just returned the exit code 7 that the reaper recorded for a
\* child that exited with it.
C28_Witness ==
    /\ pres.op = "wait"
    /\ pres.Error = ""
    /\ pres.ExitCode = 7
    /\ procs[pres.obj].done
    /\ procs[pres.obj].status = 7

\* C29: every execute call that has returned has called audit exactly
\* once, whatever the path it returned by: empty command, policy
\* rejection, dry run, timeout, launch failure, exit of the command.
C29_OneAuditRecord == pc = "done" => auditCalls = 1

\* C30: a call of the registry whose audit line could not be written
\* returns what it returns when the line is written, without an error, and
\* leaves the registry as it does then: the spawned process is registered
\* under the pid returned, the bytes of write_stdin are counted, the
\* waited process is returned with the reaper's exit code and its entry
\* is removed, the signal of kill was sent, list holds the registry.
C30_AuditFailureHidden ==
    (pres.audited /\ pres.logErr = "failed") =>
        /\ pres.Error = ""
        /\ pres.op = "spawn" => /\ pres.Pid = procs[pres.obj].pid
                                /\ processes[pres.Pid] = pres.obj
        /\ pres.op = "stdin" => pres.BytesWritten \in {1, DefaultMaxStdin}
        /\ pres.op = "wait" => /\ pres.ExitCode = procs[pres.obj].exitCode
                               /\ pres.Stdout = procs[pres.obj].out.stdout.len
                               /\ processes[pres.pid] = 0
        /\ pres.op = "kill" => /\ pres.Killed
                               /\ pres.sent # <<>>
        /\ pres.op = "list" =>
              pres.Processes = {q \in Pids : processes[q] # 0}

\* A wait has returned the exit code 7 of its process and removed the
\* entry although its audit line could not be written.
C30_Witness ==
    /\ pres.op = "wait"
    /\ pres.audited
    /\ pres.logErr = "failed"
    /\ pres.ExitCode = 7
    /\ processes[pres.pid] = 0

\* The same for execute: when the line of the call could not be written
\* the response is the one Run built before it called audit.
ExecuteAuditFailureHidden ==
    (pc = "done" /\ auditCalls = 1 /\ logLines = 0) =>
        /\ resp.Error = (IF path = "policy" THEN "command blocked" ELSE "")
        /\ path = "ok" => resp.ExitCode = 0

\* The calls of the tool that satisfy P, counted.
CountOf(tool, P(_)) ==
    Cardinality({c \in CallIds : mw[c].tool = tool /\ P(mw[c])})

WasInvoked(call) == call.invoked
RanToReturn(call) == call.invoked /\ call.pc = "done"
TurnedAway(call) == ~call.invoked /\ call.pc = "done"

\* C31: no invocation returns without a metric under its tool name. A call
\* that returns either had its handler invoked, and then the call counter
\* of its tool counted it when it got its slot and its return adds one
\* duration sample, or it was turned away at the rate limiter or while it
\* waited for a slot, and then its return adds one to the error counter of
\* its tool.
C31_NoCallWithoutMetric ==
    /\ [](\A t \in Tools :
            /\ calls[t] = CountOf(t, WasInvoked)
            /\ durations[t] = CountOf(t, RanToReturn)
            /\ errors[t] >= CountOf(t, TurnedAway))
    /\ [](\A c \in CallIds :
            mw[c].pc = "done" => mw[c].invoked \/ mw[c].at \in {"rate", "sem"})
    /\ [][\A c \in CallIds :
            (mw[c].pc # "done" /\ mw'[c].pc = "done") =>
                IF mw[c].pc = "running"
                THEN /\ durations'[mw[c].tool] = durations[mw[c].tool] + 1
                     /\ calls[mw[c].tool] >= 1
                ELSE /\ errors'[mw'[c].tool] = errors[mw'[c].tool] + 1
                     /\ UNCHANGED <<calls, durations, timeouts>>]_vars

\* One call was turned away at the rate limiter, counted as an error and
\* as nothing else, and another one of the same tool ran and returned.
C31_Witness ==
    \E c, x \in CallIds :
        /\ mw[c].pc = "done" /\ mw[c].at = "rate"
        /\ mw[x].pc = "done" /\ mw[x].invoked
        /\ mw[x].tool = mw[c].tool
        /\ calls[mw[c].tool] = 1
        /\ durations[mw[c].tool] = 1
        /\ errors[mw[c].tool] = 1
        /\ timeouts[mw[c].tool] = 0

\* C32: when next returns a result with structured content and no error,
\* the error counter of the tool goes up by one if the content reports a
\* non-zero exit_code or a non-empty error and stays as it is otherwise,
\* and the timeout counter goes up by one if the exit_code is 124 and
\* stays as it is otherwise.
C32_PayloadReclassified ==
    [][\A c \in CallIds, w \in CallIds \cup {0}, res \in HandlerResults :
          (/\ mw[c].pc = "running"
           /\ res.err = ""
           /\ res.content.kind # "nil"
           /\ HandlerReturns(c, w, res)) =>
              /\ errors'[mw[c].tool] - errors[mw[c].tool] =
                    IF res.content.ExitCode # 0 \/ res.content.Error # ""
                    THEN 1 ELSE 0
              /\ timeouts'[mw[c].tool] - timeouts[mw[c].tool] =
                    IF res.content.ExitCode = TimeoutExit THEN 1 ELSE 0]_vars

\* The only call made so far has returned and is counted once as a call,
\* once as an error and once as a timeout: its handler returned a content
\* with exit_code 124 and no error.
C32_Witness ==
    /\ mw[1].pc = "done"
    /\ \A c \in CallIds \ {1} : mw[c].pc = "idle"
    /\ calls[mw[1].tool] = 1
    /\ durations[mw[1].tool] = 1
    /\ errors[mw[1].tool] = 1
    /\ timeouts[mw[1].tool] = 1

\* The calls that have drawn from a limiter of the tool, and those that
\* made one for it at line 94.
DrewFrom(tool) == {c \in CallIds : mw[c].tool = tool /\ mw[c].lim # 0}
MadeFor(tool) == {c \in DrewFrom(tool) : mw[c].lim = c}

\* C33: for each tool name at most one limiter is ever made, and all the
\* calls of the tool draw from the same limiter, also when the first calls
\* of the tool come at the same time.
C33_OneLimiterPerTool ==
    \A t \in Tools :
        /\ Cardinality(MadeFor(t)) <= 1
        /\ \A c, x \in DrewFrom(t) : mw[c].lim = mw[x].lim

\* C35: a slot is released by the return of a handler and by nothing else,
\* once. The step in which a call that holds a slot returns takes one
\* element from sem, a step in which a call returns without a slot leaves
\* sem as it is, sem loses an element only when a call that holds a slot
\* returns, and sem is empty whenever no call is in flight.
C35_SlotReleasedOnce ==
    /\ [][\A c \in CallIds :
            (mw[c].pc # "done" /\ mw'[c].pc = "done") =>
                sem' = sem
                       - (IF mw[c].pc = "running" THEN 1 ELSE 0)
                       + Cardinality({x \in CallIds :
                                         /\ mw[x].pc # "running"
                                         /\ mw'[x].pc = "running"})]_vars
    /\ [][sem' < sem =>
            \E c \in CallIds : mw[c].pc = "running" /\ mw'[c].pc = "done"]_vars
    /\ []((\A c \in CallIds : mw[c].pc \in {"idle", "done"}) => sem = 0)

\* Every call has returned, one after its handler ran and one that was
\* cancelled while it waited for the slot the first one held, and sem is
\* empty.
C35_Witness ==
    /\ \A c \in CallIds : mw[c].pc = "done"
    /\ \E c, x \in CallIds :
          /\ mw[c].invoked
          /\ ~mw[x].invoked /\ mw[x].at = "sem" /\ mw[x].waitedSem
    /\ sem = 0

\* What next can return when the deadline of ctx2 has passed: an error, or
\* a result whose content has exit_code 124.
TimeoutAsError == {r \in HandlerResults : r.err # ""}
TimeoutInContent ==
    {r \in HandlerResults : r.err = "" /\ r.content.kind = "exec"
                            /\ r.content.ExitCode = TimeoutExit}

\* C39: for a call whose handler runs past the deadline of ctx2, the
\* counters change in the same way whether next returns an error or a
\* result with exit_code 124.
C39_TimeoutCountedAlike ==
    \A c \in CallIds :
        (mw[c].pc = "running" /\ mw[c].ctx2Err = "context deadline exceeded") =>
            \A r \in TimeoutAsError, p \in TimeoutInContent :
                Classify(r, mw[c].ctx2Err) = Classify(p, mw[c].ctx2Err)

\* C40: every limiter made has a burst of at least 1.
C40_BurstAtLeastOne ==
    \A c \in CallIds : mw[c].lim = c => limiters[c].burst >= 1

\* C36: a Kill that delivers its signal delivers it to the group of the
\* child of the entry it looked up: when it reports killed, that child is
\* still known to the kernel under its pid (running, or exited and not
\* reaped yet), so the pid has not been given to another process.
C36_KillOnlyOwnGroup ==
    (pres.op = "kill" /\ pres.Killed) =>
        procs[pres.obj].os \in {"running", "zombie"}

\* C37: when Wait reads the buffers and the truncation flags of a process,
\* on the timeout path or on the completion path, no copying goroutine of
\* that process has bytes that it is writing or about to write to them:
\* the writes of the copiers are over, or ordered before the read.
C37_WaitReadsAfterCopiers ==
    [][(WaitTimeout \/ WaitDone) =>
          \A s \in Streams : ~CanCopy(waiter.obj, s)]_vars

\* C38: when the caller's context was cancelled while the command ran, so
\* that the context watcher killed the child, Run has sent SIGKILL to the
\* process group of the command when it returns.
C38_CancelKillsGroup ==
    (pc = "done" /\ ctxErr = "Canceled" /\ childStatus = SignalledExit) =>
        GroupKilled

\* C34 (ScriptSpec): ShScriptWriteAndRun returns what execute returns in
\* the same situation: 127 for a request without its required input, 124
\* with SIGKILL sent to the process group when the deadline ended the
\* command, 1 when the child could not be launched, and the exit code of
\* a child that ended by itself with a non-zero code.
C34_ScriptAsExecute ==
    pc = "done" =>
        /\ (in.Shebang = "" \/ in.Content = "") =>
              resp.ExitCode = CmdRequiredExit
        /\ path = "timeout" =>
              /\ resp.ExitCode = TimeoutExit
              /\ child # "none" => GroupKilled
        /\ (runErr = "StartError" /\ path = "other") =>
              resp.ExitCode = LaunchFailExit
        /\ (exitedFirst /\ childStatus # 0 /\ path = "exiterror") =>
              resp.ExitCode = childStatus

====
